---- MODULE Spec2Model ----
(***************************************************************************)
(* MiniBusTub storage core: the buffer pool manager with its LRU-K         *)
(* replacer and disk manager, and the disk extendible hash table.          *)
(*                                                                         *)
(* A page buffer is abstracted to one value: 0 is the all-zero buffer,     *)
(* 1..MaxVal are distinct non-zero contents.  The backing file is the      *)
(* sequence of its page-sized blocks.                                      *)
(***************************************************************************)
EXTENDS Integers, Sequences, FiniteSets, TLC

\* ------------------------------------------------------------------ bounds
PoolSize == 2          \* pool_size is drawn from 1..PoolSize
MaxK     == 2          \* replacer_k is drawn from 1..MaxK
MaxPages == 3          \* page ids 0..MaxPages-1 are allocated or fetched
MaxTime  == 5          \* cap on the replacer's current_timestamp_
MaxPin   == 2          \* cap on a page's pin_count_
MaxVal   == 1          \* non-zero buffer contents and table values 1..MaxVal
MaxKey   == 3          \* hash-table keys 0..MaxKey
MaxHeaderDepth == 1    \* header_max_depth is drawn from 0..MaxHeaderDepth
MaxDirDepth    == 2    \* directory_max_depth is drawn from 0..MaxDirDepth
MaxBucketSize  == 2    \* bucket_max_size is drawn from 1..MaxBucketSize
MaxTablePages  == 6    \* cap on the pages a hash table allocates
NumFrames == 3         \* num_frames of a replacer driven on its own
MaxRequests == 3       \* cap on the requests passed to DiskScheduler::Schedule
MaxGuards == 2         \* page guard objects alive at a time
MaxPins == 3           \* cap on the guards handed out by the pool
MaxCalls == 2           \* hash table calls one thread makes
NumThreads == 2        \* threads that call into one buffer pool

\* --------------------------------------------------------------- constants
INVALID_PAGE_ID == 0 - 1
INF == 2147483647
NoFrame == 0 - 1       \* evict_id = -1, "no victim" in LRUKReplacer::Evict
Uninit == 0 - 2        \* the indeterminate value of an uninitialised local

PageIds  == 0 .. (MaxPages - 1)

VARIABLES
  pool_size_,          \* BufferPoolManager::pool_size_
  k_,                  \* LRUKReplacer::k_
  pages_,              \* BufferPoolManager::pages_ : frame -> Page
  page_table_,         \* BufferPoolManager::page_table_ : page id -> frame
  free_list_,          \* BufferPoolManager::free_list_
  next_page_id_,       \* BufferPoolManager::next_page_id_
  node_store_,         \* LRUKReplacer::node_store_ : frame -> LRUKNode
  current_timestamp_,  \* LRUKReplacer::current_timestamp_
  evictable_size_,     \* LRUKReplacer::evictable_size_
  db_io_,              \* the backing file of the DiskManager, block by block
  aborted,             \* a BUSTUB_ASSERT failed
  last,                \* history: the last call made and what it returned
  note,                \* history: per page id, what its callers did with it
  observe,             \* which history variables this run records
  header_max_depth_,   \* DiskExtendibleHashTable::header_max_depth_
  directory_max_depth_,\* DiskExtendibleHashTable::directory_max_depth_
  bucket_max_size_,    \* DiskExtendibleHashTable::bucket_max_size_
  hash_fn_,            \* DiskExtendibleHashTable::hash_fn_ : key -> 32-bit hash
  header_page_id_,     \* DiskExtendibleHashTable::header_page_id_
  table_pages_,        \* page ids the pool has handed to the table so far
  header_page,         \* the ExtendibleHTableHeaderPage of the table
  directory_pages,     \* page id -> ExtendibleHTableDirectoryPage
  bucket_pages,        \* page id -> ExtendibleHTableBucketPage
  called,              \* history: the last table call and what it returned
  expect,              \* history: per key, what its callers did with it
  request_queue_,      \* DiskScheduler::request_queue_ : request ids, 0 = std::nullopt
  background_thread_,  \* the worker: where it stands and the request it holds
  requests,            \* the DiskRequests scheduled so far, by id: is_write_, page_id_
  data_,               \* request id -> the buffer DiskRequest::data_ points to
  callback_,           \* request id -> the shared state of DiskRequest::callback_
  destructor,          \* where ~DiskScheduler stands
  io_log,              \* history: the requests the disk manager served, in order
  guards,              \* the page guard objects of the caller, by slot
  rwlatch_,            \* page id -> Page::rwlatch_ of the frame that holds it
  segv,                \* a call through a null Page pointer ended the program
  pins,                \* history: per pin a guard was created with, what became of it
  inert_calls,         \* history: unpins and unlatches made by guards that hold no pin
  latch_,              \* BufferPoolManager::latch_: the thread that owns it, 0 when free
  thread,              \* per calling thread, the pool call it is in and how far
  raced                \* two threads were in the pool's state at once

bpmVars == <<pool_size_, k_, pages_, page_table_, free_list_, next_page_id_, node_store_,
             current_timestamp_, evictable_size_, db_io_, aborted, last, note, observe>>

htVars == <<header_max_depth_, directory_max_depth_, bucket_max_size_, hash_fn_,
            header_page_id_, table_pages_, header_page, directory_pages, bucket_pages,
            called, expect>>

dsVars == <<request_queue_, background_thread_, requests, data_, callback_,
            destructor, io_log>>

pgVars == <<guards, rwlatch_, segv, pins, inert_calls>>

mxVars == <<latch_, thread, raced>>

vars == <<bpmVars, htVars, dsVars, pgVars, mxVars>>

\* ------------------------------------------------------------ functions
Put(f, key, val) == [x \in (DOMAIN f) \cup {key} |-> IF x = key THEN val ELSE f[x]]
\* a faulty erase that leaves the entry in place
EraseNothing(f, key) == f

Erase(f, key) == [x \in (DOMAIN f) \ {key} |-> f[x]]

RECURSIVE Zeros(_)
Zeros(n) == IF n <= 0 THEN <<>> ELSE <<0>> \o Zeros(n - 1)

\* DiskManager::WritePage: seek to page_id * PAGE_SIZE and write one block;
\* a write past the end extends the file, the gap reads as zeros.
\* a faulty WritePage that never grows the file
WritePageInPlaceOnly(file, page_id, data) ==
  IF page_id < Len(file) THEN [file EXCEPT ![page_id + 1] = data] ELSE file

WritePage(file, page_id, data) ==
  IF page_id < Len(file)
  THEN [file EXCEPT ![page_id + 1] = data]
  ELSE file \o Zeros(page_id - Len(file)) \o <<data>>

\* a faulty ReadPage that never fills the buffer
ReadPageKeepsBuffer(file, page_id, page_data) == page_data

\* DiskManager::ReadPage: the new content of the output buffer.
ReadPage(file, page_id, page_data) ==
  IF page_id > Len(file)
  THEN page_data                        \* offset > file size: only a log line
  ELSE IF page_id = Len(file)
       THEN 0                           \* read_count = 0, memset of the whole buffer
       ELSE file[page_id + 1]

\* LRUKNode::GetKDistance
GetKDistance(node, now, k) ==
  IF Len(node.history_) < k THEN INF ELSE now - node.history_[k]

\* LRUKNode::GetEarlyTimestamp
GetEarlyTimestamp(node) == node.history_[Len(node.history_)]

\* every order in which the unordered_map can be iterated
RECURSIVE Orders(_)
Orders(S) ==
  IF S = {} THEN {<<>>}
  ELSE UNION {{<<x>> \o o : o \in Orders(S \ {x})} : x \in S}

\* the loop of LRUKReplacer::Evict over the nodes in the given order: the
\* set of values evict_id can have at the end.  early = Uninit is the local
\* early_timestamp before its first assignment; comparing it is undefined.
RECURSIVE EvictScan(_, _, _, _, _, _, _)
EvictScan(store, now, k, order, mx, early, id) ==
  IF order = <<>> THEN {id}
  ELSE LET f    == Head(order)
           node == store[f]
           d    == GetKDistance(node, now, k)
           e    == GetEarlyTimestamp(node)
           rest == Tail(order)
       IN IF ~node.is_evictable_ THEN EvictScan(store, now, k, rest, mx, early, id)
          ELSE IF d > mx THEN EvictScan(store, now, k, rest, d, e, f)
          ELSE IF d = mx
               THEN IF early = Uninit
                    THEN EvictScan(store, now, k, rest, mx, e, f)
                         \cup EvictScan(store, now, k, rest, mx, early, id)
                    ELSE IF early > e
                         THEN EvictScan(store, now, k, rest, mx, e, f)
                         ELSE EvictScan(store, now, k, rest, mx, early, id)
               ELSE EvictScan(store, now, k, rest, mx, early, id)

\* LRUKReplacer::Evict: the frames it can return, NoFrame when it returns false
Evict(store, now, k) ==
  UNION {EvictScan(store, now, k, o, 0, Uninit, NoFrame) : o \in Orders(DOMAIN store)}

\* LRUKReplacer::RecordAccess with the timestamp already incremented
RecordAccess(store, f, ts) ==
  IF f \notin DOMAIN store
  THEN Put(store, f, [history_ |-> <<ts>>, is_evictable_ |-> FALSE])
  ELSE [store EXCEPT ![f].history_ = <<ts>> \o @]

\* a faulty SetEvictable that never makes a frame evictable: C1 must tell
\* it from SetEvictable
SetEvictableNeverSets(store, size, f, flag) ==
  IF store[f].is_evictable_ /\ ~flag
  THEN [store |-> [store EXCEPT ![f].is_evictable_ = FALSE], size |-> size - 1]
  ELSE [store |-> store, size |-> size]

\* a faulty SetEvictable that makes the frame evictable whatever the flag:
\* C11 must tell it from SetEvictable
SetEvictableIgnoresFlag(store, size, f, flag) ==
  IF store[f].is_evictable_
  THEN [store |-> store, size |-> size]
  ELSE [store |-> [store EXCEPT ![f].is_evictable_ = TRUE], size |-> size + 1]

\* a faulty SetEvictable that sets the flag and leaves evictable_size_ alone
SetEvictableFlagOnly(store, size, f, flag) ==
  [store |-> [store EXCEPT ![f].is_evictable_ = flag], size |-> size]

\* LRUKReplacer::SetEvictable on a tracked frame: the new store and size
SetEvictable(store, size, f, flag) ==
  IF store[f].is_evictable_ /\ ~flag
  THEN [store |-> [store EXCEPT ![f].is_evictable_ = FALSE], size |-> size - 1]
  ELSE IF ~store[f].is_evictable_ /\ flag
       THEN [store |-> [store EXCEPT ![f].is_evictable_ = TRUE], size |-> size + 1]
       ELSE [store |-> store, size |-> size]

\* a faulty FlushPage that clears the dirty bit without writing: C12 must
\* tell it from FlushPageOn
FlushPageOnNoWrite(pages, table, file, page_id) ==
  IF page_id \notin DOMAIN table
  THEN [ret |-> FALSE, pages |-> pages, file |-> file]
  ELSE [ret |-> TRUE, pages |-> [pages EXCEPT ![table[page_id]].is_dirty_ = FALSE],
        file |-> file]

\* BufferPoolManager::FlushPage as a function of the state it touches
FlushPageOn(pages, table, file, page_id) ==
  IF page_id \notin DOMAIN table
  THEN [ret |-> FALSE, pages |-> pages, file |-> file]
  ELSE LET f == table[page_id]
       IN [ret   |-> TRUE,
           pages |-> [pages EXCEPT ![f].is_dirty_ = FALSE],
           file  |-> WritePage(file, page_id, pages[f].data_)]

NoteInit == [val |-> 0, committed |-> FALSE, cycled |-> FALSE, clean |-> "none"]

\* ----------------------------------------------------------------- Init
\* the state BufferPoolManager::BufferPoolManager leaves, over an empty file
Constructed ==
  /\ pool_size_ \in 1 .. PoolSize
  /\ k_ \in 1 .. MaxK
  /\ pages_ = [f \in 0 .. (pool_size_ - 1) |->
                 [page_id_ |-> INVALID_PAGE_ID, pin_count_ |-> 0,
                  is_dirty_ |-> FALSE, data_ |-> 0]]
  /\ page_table_ = <<>>
  /\ free_list_ = [i \in 1 .. pool_size_ |-> i - 1]
  /\ next_page_id_ = 0
  /\ node_store_ = <<>>
  /\ current_timestamp_ = 0
  /\ evictable_size_ = 0
  /\ db_io_ = <<>>
  /\ aborted = FALSE
  /\ last = [op |-> "none", page |-> INVALID_PAGE_ID, dirty |-> FALSE, ret |-> FALSE]
  /\ note = [p \in PageIds |-> NoteInit]

NoCall == [op |-> "none", key |-> 0, ret |-> FALSE, result |-> <<>>]

\* no disk scheduler is looked at: the pool's reads and writes are the
\* disk manager calls its scheduler makes while the pool waits for them
NoScheduler ==
  /\ request_queue_ = <<>>
  /\ background_thread_ = [pc |-> "none", disk_request |-> 0]
  /\ requests = <<>>
  /\ data_ = <<>>
  /\ callback_ = <<>>
  /\ destructor = "none"
  /\ io_log = <<>>

\* the pool has one caller at a time
NoThreads ==
  /\ latch_ = 0
  /\ thread = <<>>
  /\ raced = FALSE

\* the caller holds no page guard
NoGuards ==
  /\ guards = <<>>
  /\ rwlatch_ = <<>>
  /\ segv = FALSE
  /\ pins = <<>>
  /\ inert_calls = 0

\* no hash table has been built on the pool
NoTable ==
  /\ header_max_depth_ = 0
  /\ directory_max_depth_ = 0
  /\ bucket_max_size_ = 0
  /\ hash_fn_ = <<>>
  /\ header_page_id_ = INVALID_PAGE_ID
  /\ table_pages_ = 0
  /\ header_page = <<>>
  /\ directory_pages = <<>>
  /\ bucket_pages = <<>>
  /\ called = NoCall
  /\ expect = <<>>

Init    == Constructed /\ NoTable /\ NoScheduler /\ NoGuards /\ NoThreads /\ observe = {}
InitObs == Constructed /\ NoTable /\ NoScheduler /\ NoGuards /\ NoThreads /\ pool_size_ = 1 /\ observe = {"note"}
InitLog == Constructed /\ NoTable /\ NoScheduler /\ NoGuards /\ NoThreads /\ pool_size_ = 1 /\ observe = {"last"}


\* ------------------------------------------------- what callers did to a page
NoteNew(n)     == [NoteInit EXCEPT !.clean = "new"]
NoteWrite(n, v) == [val |-> v, committed |-> FALSE, cycled |-> FALSE, clean |-> "none"]
NoteUnpin(n, is_dirty) ==
  IF is_dirty
  THEN [n EXCEPT !.committed = (n.val # 0), !.clean = "none"]
  ELSE [n EXCEPT !.clean = IF n.clean = "new" THEN "unpinned" ELSE "none"]
NoteHit(n)     == [n EXCEPT !.clean = "none"]
NoteMiss(n)    == [n EXCEPT !.cycled = n.committed,
                            !.clean = IF n.clean = "evicted" THEN "refetched" ELSE "none"]
NoteEvicted(n) == [n EXCEPT !.clean = IF n.clean = "unpinned" THEN "evicted" ELSE "none"]

Noted(n) == IF "note" \in observe THEN n ELSE note
Log(call) == IF "last" \in observe THEN call ELSE last

NoteAfterEvict(nt, page_id) ==
  IF page_id \in PageIds THEN [nt EXCEPT ![page_id] = NoteEvicted(@)] ELSE nt

\* ------------------------------------------------------------- operations
\* The frame NewPage and FetchPage put a page into: the front of the free
\* list, else the replacer's victim, written back if dirty and unmapped.
\* frame = NoFrame is the "return nullptr" branch.
TakeFrame ==
  IF free_list_ # <<>>
  THEN {[frame |-> Head(free_list_), free |-> Tail(free_list_),
         store |-> node_store_, size |-> evictable_size_,
         pages |-> pages_, table |-> page_table_, file |-> db_io_,
         evicted |-> INVALID_PAGE_ID]}
  ELSE {IF v = NoFrame
        THEN [frame |-> NoFrame, free |-> free_list_,
              store |-> node_store_, size |-> evictable_size_,
              pages |-> pages_, table |-> page_table_, file |-> db_io_,
              evicted |-> INVALID_PAGE_ID]
        ELSE LET old_page == pages_[v]
                 fl == IF old_page.is_dirty_
                       THEN FlushPageOn(pages_, page_table_, db_io_, old_page.page_id_)
                       ELSE [ret |-> FALSE, pages |-> pages_, file |-> db_io_]
             IN [frame |-> v, free |-> free_list_,
                 store |-> Erase(node_store_, v), size |-> evictable_size_ - 1,
                 pages |-> fl.pages, table |-> Erase(page_table_, old_page.page_id_),
                 file |-> fl.file, evicted |-> old_page.page_id_]
        : v \in Evict(node_store_, current_timestamp_, k_)}

Failed(op, page_id) ==
  /\ last' = Log([op |-> op, page |-> page_id, dirty |-> FALSE, ret |-> FALSE])
  /\ UNCHANGED <<dsVars, htVars, pool_size_, k_, pages_, page_table_, free_list_, next_page_id_, node_store_,
                 current_timestamp_, evictable_size_, db_io_, aborted, note, observe>>

\* BufferPoolManager::AllocatePage
AllocatePage == next_page_id_

\* NewPage once the frame is chosen (t is an outcome of TakeFrame)
NewPageWith(t) ==
  IF t.frame = NoFrame
  THEN Failed("NewPage", INVALID_PAGE_ID)
  ELSE /\ next_page_id_ < MaxPages
       /\ current_timestamp_ < MaxTime
       /\ LET new_page_id == AllocatePage
              ts == current_timestamp_ + 1
              rs == SetEvictable(RecordAccess(t.store, t.frame, ts), t.size,
                                 t.frame, FALSE)
          IN /\ next_page_id_' = next_page_id_ + 1
             /\ current_timestamp_' = ts
             /\ node_store_' = rs.store
             /\ evictable_size_' = rs.size
             /\ free_list_' = t.free
             /\ page_table_' = Put(t.table, new_page_id, t.frame)
             /\ pages_' = [t.pages EXCEPT ![t.frame] =
                             [page_id_ |-> new_page_id, pin_count_ |-> 1,
                              is_dirty_ |-> FALSE, data_ |-> 0]]
             /\ db_io_' = t.file
             /\ note' = Noted([NoteAfterEvict(note, t.evicted) EXCEPT
                                 ![new_page_id] = NoteNew(@)])
             /\ last' = Log([op |-> "NewPage", page |-> new_page_id,
                             dirty |-> FALSE, ret |-> TRUE])
             /\ UNCHANGED <<dsVars, htVars, pool_size_, k_, aborted, observe>>

NewPage ==
  /\ ~aborted
  /\ \E t \in TakeFrame : NewPageWith(t)

\* FetchPage of a resident page
FetchHit(page_id) ==
  LET frame_id == page_table_[page_id]
      ts == current_timestamp_ + 1
      rs == SetEvictable(RecordAccess(node_store_, frame_id, ts),
                         evictable_size_, frame_id, FALSE)
  IN /\ current_timestamp_ < MaxTime
     /\ pages_[frame_id].pin_count_ < MaxPin
     /\ pages_' = [pages_ EXCEPT ![frame_id].pin_count_ = @ + 1,
                                 ![frame_id].is_dirty_ = TRUE]
     /\ current_timestamp_' = ts
     /\ node_store_' = rs.store
     /\ evictable_size_' = rs.size
     /\ note' = Noted([note EXCEPT ![page_id] = NoteHit(@)])
     /\ last' = Log([op |-> "FetchHit", page |-> page_id, dirty |-> FALSE,
                     ret |-> TRUE])
     /\ UNCHANGED <<dsVars, htVars, pool_size_, k_, page_table_, free_list_, next_page_id_,
                    db_io_, aborted, observe>>

\* FetchPage of a page that is not resident, once the frame is chosen
FetchMissWith(page_id, t) ==
  IF t.frame = NoFrame
  THEN Failed("FetchPage", page_id)
  ELSE /\ current_timestamp_ < MaxTime
       /\ LET ts == current_timestamp_ + 1
              rs == SetEvictable(RecordAccess(t.store, t.frame, ts), t.size,
                                 t.frame, FALSE)
          IN /\ current_timestamp_' = ts
             /\ node_store_' = rs.store
             /\ evictable_size_' = rs.size
             /\ free_list_' = t.free
             /\ page_table_' = Put(t.table, page_id, t.frame)
             /\ pages_' = [t.pages EXCEPT ![t.frame] =
                             [page_id_ |-> page_id, pin_count_ |-> 1,
                              is_dirty_ |-> FALSE,
                              data_ |-> ReadPage(t.file, page_id,
                                                 t.pages[t.frame].data_)]]
             /\ db_io_' = t.file
             /\ note' = Noted([NoteAfterEvict(note, t.evicted) EXCEPT
                                 ![page_id] = NoteMiss(@)])
             /\ last' = Log([op |-> "FetchPage", page |-> page_id,
                             dirty |-> FALSE, ret |-> TRUE])
             /\ UNCHANGED <<dsVars, htVars, pool_size_, k_, next_page_id_, aborted, observe>>

FetchPage(page_id) ==
  /\ ~aborted
  /\ IF page_id \in DOMAIN page_table_
     THEN FetchHit(page_id)
     ELSE \E t \in TakeFrame : FetchMissWith(page_id, t)

UnpinPage(page_id, is_dirty) ==
  /\ ~aborted
  /\ IF page_id \notin DOMAIN page_table_ \/ pages_[page_table_[page_id]].pin_count_ <= 0
     THEN /\ last' = Log([op |-> "UnpinPage", page |-> page_id,
                          dirty |-> is_dirty, ret |-> FALSE])
          /\ UNCHANGED <<dsVars, htVars, pool_size_, k_, pages_, page_table_, free_list_, next_page_id_, node_store_,
                         current_timestamp_, evictable_size_, db_io_, aborted, note, observe>>
     ELSE LET f  == page_table_[page_id]
              pc == pages_[f].pin_count_ - 1
          IN IF f \notin DOMAIN node_store_
             THEN /\ aborted' = TRUE
                  /\ last' = Log([op |-> "UnpinPage", page |-> page_id,
                                  dirty |-> is_dirty, ret |-> FALSE])
                  /\ pages_' = [pages_ EXCEPT ![f].pin_count_ = pc]
                  /\ UNCHANGED <<dsVars, htVars, pool_size_, k_, page_table_, free_list_, next_page_id_, node_store_,
                                 current_timestamp_, evictable_size_, db_io_, note, observe>>
             ELSE LET rs == SetEvictable(node_store_, evictable_size_, f, pc = 0)
                  IN /\ pages_' = [pages_ EXCEPT ![f].pin_count_ = pc,
                                                 ![f].is_dirty_ = is_dirty]
                     /\ node_store_' = rs.store
                     /\ evictable_size_' = rs.size
                     /\ note' = Noted([note EXCEPT ![page_id] = NoteUnpin(@, is_dirty)])
                     /\ last' = Log([op |-> "UnpinPage", page |-> page_id,
                                     dirty |-> is_dirty, ret |-> TRUE])
                     /\ UNCHANGED <<dsVars, htVars, pool_size_, k_, page_table_, free_list_, next_page_id_,
                                    current_timestamp_, db_io_, aborted, observe>>

FlushPage(page_id) ==
  /\ ~aborted
  /\ LET fl == FlushPageOn(pages_, page_table_, db_io_, page_id)
     IN /\ pages_' = fl.pages
        /\ db_io_' = fl.file
        /\ last' = Log([op |-> "FlushPage", page |-> page_id,
                        dirty |-> FALSE, ret |-> fl.ret])
  /\ UNCHANGED <<dsVars, htVars, pool_size_, k_, page_table_, free_list_, next_page_id_, node_store_,
                 current_timestamp_, evictable_size_, aborted, note, observe>>

\* FlushAllPages: FlushPage of every key of the page table, in any order;
\* the flushes touch disjoint frames and blocks, so the order does not show.
RECURSIVE FlushEach(_, _, _, _)
FlushEach(pages, table, file, ids) ==
  IF ids = {} THEN [ret |-> TRUE, pages |-> pages, file |-> file]
  ELSE LET p  == CHOOSE x \in ids : TRUE
           fl == FlushPageOn(pages, table, file, p)
       IN FlushEach(fl.pages, table, fl.file, ids \ {p})

FlushAllPages ==
  /\ ~aborted
  /\ LET fl == FlushEach(pages_, page_table_, db_io_, DOMAIN page_table_)
     IN /\ pages_' = fl.pages
        /\ db_io_' = fl.file
  /\ last' = Log([op |-> "FlushAllPages", page |-> INVALID_PAGE_ID,
                  dirty |-> FALSE, ret |-> TRUE])
  /\ UNCHANGED <<dsVars, htVars, pool_size_, k_, page_table_, free_list_, next_page_id_, node_store_,
                 current_timestamp_, evictable_size_, aborted, note, observe>>

DeletePage(page_id) ==
  /\ ~aborted
  /\ IF page_id \notin DOMAIN page_table_
     THEN /\ last' = Log([op |-> "DeletePage", page |-> page_id,
                          dirty |-> FALSE, ret |-> TRUE])
          /\ UNCHANGED <<dsVars, htVars, pool_size_, k_, pages_, page_table_, free_list_, next_page_id_, node_store_,
                         current_timestamp_, evictable_size_, db_io_, aborted, note, observe>>
     ELSE IF pages_[page_table_[page_id]].pin_count_ > 0
          THEN Failed("DeletePage", page_id)
          ELSE LET frame_id == page_table_[page_id]
                   fl == IF pages_[frame_id].is_dirty_
                         THEN FlushPageOn(pages_, page_table_, db_io_, page_id)
                         ELSE [ret |-> FALSE, pages |-> pages_, file |-> db_io_]
                   tracked == frame_id \in DOMAIN node_store_
               IN /\ pages_' = [fl.pages EXCEPT ![frame_id].data_ = 0]
                  /\ db_io_' = fl.file
                  /\ page_table_' = Erase(page_table_, page_id)
                  /\ aborted' = (tracked /\ ~node_store_[frame_id].is_evictable_)
                  /\ node_store_' = Erase(node_store_, frame_id)
                  /\ evictable_size_' = IF tracked THEN evictable_size_ - 1
                                        ELSE evictable_size_
                  /\ free_list_' = Append(free_list_, frame_id)
                  /\ note' = Noted([note EXCEPT ![page_id] = NoteInit])
                  /\ last' = Log([op |-> "DeletePage", page |-> page_id,
                                  dirty |-> FALSE, ret |-> TRUE])
                  /\ UNCHANGED <<dsVars, htVars, pool_size_, k_, next_page_id_, current_timestamp_, observe>>

\* A caller that holds a pin on page_id overwrites its buffer (Page::GetData,
\* BasicPageGuard::GetDataMut).
WriteData(page_id, v) ==
  /\ ~aborted
  /\ page_id \in DOMAIN page_table_
  /\ pages_[page_table_[page_id]].pin_count_ > 0
  /\ pages_[page_table_[page_id]].data_ # v
  /\ pages_' = [pages_ EXCEPT ![page_table_[page_id]].data_ = v]
  /\ note' = Noted([note EXCEPT ![page_id] = NoteWrite(@, v)])
  /\ last' = Log([op |-> "WriteData", page |-> page_id, dirty |-> FALSE, ret |-> TRUE])
  /\ UNCHANGED <<dsVars, htVars, pool_size_, k_, page_table_, free_list_, next_page_id_, node_store_,
                 current_timestamp_, evictable_size_, db_io_, aborted, observe>>

\* the pool driven directly by its caller, who uses no page guard
Next ==
  \/ NewPage /\ UNCHANGED <<pgVars, mxVars>>
  \/ \E p \in PageIds : FetchPage(p) /\ UNCHANGED <<pgVars, mxVars>>
  \/ \E p \in PageIds, d \in BOOLEAN : UnpinPage(p, d) /\ UNCHANGED <<pgVars, mxVars>>
  \/ \E p \in PageIds : FlushPage(p) /\ UNCHANGED <<pgVars, mxVars>>
  \/ FlushAllPages /\ UNCHANGED <<pgVars, mxVars>>
  \/ \E p \in PageIds : DeletePage(p) /\ UNCHANGED <<pgVars, mxVars>>
  \/ \E p \in PageIds, v \in 1 .. MaxVal : WriteData(p, v) /\ UNCHANGED <<pgVars, mxVars>>

Spec    == Init /\ [][Next]_vars
SpecObs == InitObs /\ [][Next]_vars
SpecLog == InitLog /\ [][Next]_vars


\* ------------------------------------------------- extendible hash table
\* The table is run on a pool large enough to keep all its pages resident,
\* so a page is what the table last left in it; NewPageGuarded hands out
\* page ids 0, 1, 2, ... and a zeroed buffer.  A 32-bit hash is the pair of
\* its upper and lower 16 bits; every mask met here is below 2^16.
Keys == 0 .. MaxKey

RECURSIVE BitAnd(_, _)
BitAnd(a, b) ==
  IF a = 0 \/ b = 0 THEN 0
  ELSE (a % 2) * (b % 2) + 2 * BitAnd(a \div 2, b \div 2)

RECURSIVE BitXor(_, _)
BitXor(a, b) ==
  IF a = 0 THEN b
  ELSE IF b = 0 THEN a
  ELSE ((a + b) % 2) + 2 * BitXor(a \div 2, b \div 2)

\* hash functions a table may be built with: the key itself; the key's low
\* bit as the hash's top bit; every key on one hash
HashFns ==
  { [key \in Keys |-> [hi |-> 0, lo |-> key]],
    [key \in Keys |-> [hi |-> (key % 2) * (2 ^ 15), lo |-> key \div 2]],
    [key \in Keys |-> [hi |-> 0, lo |-> 0]] }

Hash(key) == hash_fn_[key]

\* ExtendibleHTableHeaderPage
HeaderInit(max_depth) ==
  [max_depth_ |-> max_depth,
   directory_page_ids_ |-> [i \in 0 .. ((2 ^ max_depth) - 1) |-> INVALID_PAGE_ID]]

HashToDirectoryIndex(header, hash) ==
  IF header.max_depth_ > 0 THEN hash.hi \div (2 ^ (16 - header.max_depth_)) ELSE 0

HeaderMaxSize(header) == header.max_depth_

SetDirectoryPageId(header, directory_idx, directory_page_id) ==
  [header EXCEPT !.directory_page_ids_[directory_idx] = directory_page_id]

\* ExtendibleHTableDirectoryPage, on a zeroed page
DirectoryInit(max_depth) ==
  [max_depth_ |-> max_depth,
   global_depth_ |-> 0,
   local_depths_ |-> [i \in 0 .. ((2 ^ max_depth) - 1) |-> 0],
   bucket_page_ids_ |-> [i \in 0 .. ((2 ^ max_depth) - 1) |-> 0]]

GetGlobalDepthMask(directory) == (2 ^ directory.global_depth_) - 1

GetLocalDepthMask(directory, bucket_idx) ==
  (2 ^ directory.bucket_page_ids_[bucket_idx]) - 1

HashToBucketIndex(directory, hash) == BitAnd(hash.lo, GetGlobalDepthMask(directory))

GetSplitImageIndex(directory, bucket_idx) ==
  BitXor(bucket_idx, 2 ^ directory.local_depths_[bucket_idx])

SetBucketPageId(directory, bucket_idx, bucket_page_id) ==
  [directory EXCEPT !.bucket_page_ids_[bucket_idx] = bucket_page_id]

SetLocalDepth(directory, bucket_idx, local_depth) ==
  [directory EXCEPT !.local_depths_[bucket_idx] = local_depth]

IncrLocalDepth(directory, bucket_idx) ==
  [directory EXCEPT !.local_depths_[bucket_idx] = @ + 1]

\* a faulty IncrGlobalDepth that copies the page ids but not the local
\* depths: C5 must tell it from IncrGlobalDepth
IncrGlobalDepthIdsOnly(directory) ==
  LET g == directory.global_depth_ + 1
      half == 2 ^ (g - 1)
  IN  [directory EXCEPT
         !.global_depth_ = g,
         !.bucket_page_ids_ = [i \in DOMAIN @ |->
                                 IF i >= half /\ i < 2 ^ g THEN @[i - half] ELSE @[i]]]

\* a faulty IncrGlobalDepth that enables the next bit and copies nothing:
\* C32 must tell it from IncrGlobalDepth
IncrGlobalDepthNoCopy(directory) ==
  [directory EXCEPT !.global_depth_ = @ + 1]

IncrGlobalDepth(directory) ==
  LET g == directory.global_depth_ + 1
      half == 2 ^ (g - 1)
      Copy(a) == [i \in DOMAIN a |-> IF i >= half /\ i < 2 ^ g THEN a[i - half] ELSE a[i]]
  IN  [directory EXCEPT !.global_depth_ = g,
                        !.bucket_page_ids_ = Copy(@),
                        !.local_depths_ = Copy(@)]

DecrGlobalDepth(directory) == [directory EXCEPT !.global_depth_ = @ - 1]

DirectorySize(directory) == 2 ^ directory.global_depth_
DirectoryMaxSize(directory) == 2 ^ directory.max_depth_

\* ExtendibleHTableBucketPage; array_ holds the entries below size_
BucketInit(max_size) == [size_ |-> 0, max_size_ |-> max_size, array_ |-> <<>>]

IsFull(bucket) == bucket.size_ = bucket.max_size_

Found(bucket, key) == {tmp \in 1 .. bucket.size_ : bucket.array_[tmp].key = key}

First(S) == CHOOSE x \in S : \A y \in S : x <= y

Lookup(bucket, key) ==
  IF Found(bucket, key) # {}
  THEN [ret |-> TRUE, value |-> bucket.array_[First(Found(bucket, key))].value]
  ELSE [ret |-> FALSE, value |-> 0]

\* a faulty Insert without the search for the key: C35 must tell it from
\* BucketInsert
BucketInsertNoSearch(bucket, key, value) ==
  IF IsFull(bucket)
  THEN [ret |-> FALSE, bucket |-> bucket]
  ELSE [ret |-> TRUE,
        bucket |-> [bucket EXCEPT !.size_ = @ + 1,
                                  !.array_ = Append(@, [key |-> key, value |-> value])]]

BucketInsert(bucket, key, value) ==
  IF IsFull(bucket) \/ Found(bucket, key) # {}
  THEN [ret |-> FALSE, bucket |-> bucket]
  ELSE [ret |-> TRUE,
        bucket |-> [bucket EXCEPT !.size_ = @ + 1,
                                  !.array_ = Append(@, [key |-> key, value |-> value])]]

BucketRemove(bucket, key) ==
  IF Found(bucket, key) = {}
  THEN [ret |-> FALSE, bucket |-> bucket]
  ELSE LET tmp == First(Found(bucket, key))
       IN  [ret |-> TRUE,
            bucket |-> [bucket EXCEPT
                          !.size_ = @ - 1,
                          !.array_ = [i \in 1 .. (bucket.size_ - 1) |->
                                        IF i = tmp THEN @[bucket.size_] ELSE @[i]]]]

\* DiskExtendibleHashTable
UpdateDirectoryMapping(directory, new_bucket_idx, new_bucket_page_id, new_local_depth, mask) ==
  SetLocalDepth(SetBucketPageId(directory, new_bucket_idx, new_bucket_page_id),
                new_bucket_idx, new_local_depth)

\* the loop of MigrateEntries from index i on: the two buckets it leaves
RECURSIVE MigrateFrom(_, _, _, _, _, _)
MigrateFrom(old_bucket, new_bucket, new_bucket_idx, local_depth_mask, i, tmp_size) ==
  IF i >= tmp_size
  THEN [old |-> old_bucket, new |-> new_bucket]
  ELSE LET i_key == old_bucket.array_[i + 1].key
           i_value == old_bucket.array_[i + 1].value
       IN  IF new_bucket_idx # BitAnd(Hash(i_key).lo, local_depth_mask)
           THEN MigrateFrom(old_bucket, new_bucket, new_bucket_idx, local_depth_mask,
                            i + 1, tmp_size)
           ELSE MigrateFrom(BucketRemove(old_bucket, i_key).bucket,
                            BucketInsert(new_bucket, i_key, i_value).bucket,
                            new_bucket_idx, local_depth_mask, i + 1, tmp_size - 1)

MigrateEntries(old_bucket, new_bucket, new_bucket_idx, local_depth_mask) ==
  MigrateFrom(old_bucket, new_bucket, new_bucket_idx, local_depth_mask, 0, old_bucket.size_)

\* what a call leaves: its return value and the pages of the table
Outcome(ret, header, directories, buckets, pages) ==
  [ret |-> ret, header_page |-> header, directory_pages |-> directories,
   bucket_pages |-> buckets, table_pages_ |-> pages]

InsertToNewBucket(directory, bucket_idx, key, value, new_bucket_page_id) ==
  LET r == BucketInsert(BucketInit(bucket_max_size_), key, value)
  IN  [ret |-> r.ret,
       bucket |-> r.bucket,
       directory |-> IF r.ret
                     THEN SetLocalDepth(SetBucketPageId(directory, bucket_idx,
                                                        new_bucket_page_id),
                                        bucket_idx, 0)
                     ELSE directory]

InsertToNewDirectory(header, directory_idx, hash, key, value) ==
  LET new_directory_page_id == table_pages_
      new_bucket_page_id == table_pages_ + 1
      r == InsertToNewBucket(DirectoryInit(directory_max_depth_), 0, key, value,
                             new_bucket_page_id)
  IN  Outcome(r.ret,
              IF r.ret THEN SetDirectoryPageId(header, directory_idx, new_directory_page_id)
                       ELSE header,
              Put(directory_pages, new_directory_page_id, r.directory),
              Put(bucket_pages, new_bucket_page_id, r.bucket),
              table_pages_ + 2)

\* Insert on a full bucket: the split
InsertFull(directory_page_id, bucket_index, hash, key, value) ==
  LET directory_page == directory_pages[directory_page_id]
      bucket_page_id == directory_page.bucket_page_ids_[bucket_index]
      bucket_page == bucket_pages[bucket_page_id]
      new_bucket_page_id == table_pages_
      new_bucket_page == BucketInit(bucket_max_size_)
      new_bucket_index == GetSplitImageIndex(directory_page, bucket_index)
      new_local_depth_mask == GetLocalDepthMask(directory_page, bucket_index)
      global_depth == directory_page.global_depth_
      local_depth == directory_page.local_depths_[bucket_index]
      grown == IncrGlobalDepth(IncrLocalDepth(directory_page, bucket_index))
      deepened == IncrLocalDepth(directory_page, bucket_index)
      directory ==
        IF global_depth = local_depth
        THEN UpdateDirectoryMapping(grown, new_bucket_index, new_bucket_page_id,
                                    grown.local_depths_[bucket_index], new_local_depth_mask)
        ELSE IF global_depth < local_depth
        THEN UpdateDirectoryMapping(deepened, new_bucket_index, new_bucket_page_id,
                                    deepened.local_depths_[bucket_index],
                                    new_local_depth_mask)
        ELSE directory_page
      m == MigrateEntries(bucket_page, new_bucket_page, new_bucket_index,
                          new_local_depth_mask)
      to_old == new_bucket_index # BitAnd(hash.lo, new_local_depth_mask)
      old_bucket == IF to_old THEN BucketInsert(m.old, key, value).bucket ELSE m.old
      new_bucket == IF to_old THEN m.new ELSE BucketInsert(m.new, key, value).bucket
  IN  IF /\ global_depth = local_depth
         /\ DirectorySize(directory_page) = DirectoryMaxSize(directory_page)
      THEN Outcome(FALSE, header_page, directory_pages,
                   Put(bucket_pages, new_bucket_page_id, new_bucket_page),
                   table_pages_ + 1)
      ELSE Outcome(TRUE, header_page,
                   Put(directory_pages, directory_page_id, directory),
                   Put(Put(bucket_pages, bucket_page_id, old_bucket),
                       new_bucket_page_id, new_bucket),
                   table_pages_ + 1)

InsertOutcome(key, value) ==
  LET hash_key == Hash(key)
      directory_index == HashToDirectoryIndex(header_page, hash_key)
      directory_page_id == header_page.directory_page_ids_[directory_index]
  IN  IF directory_page_id = INVALID_PAGE_ID
      THEN InsertToNewDirectory(header_page, directory_index, hash_key, key, value)
      ELSE LET directory_page == directory_pages[directory_page_id]
               bucket_index == HashToBucketIndex(directory_page, hash_key)
               bucket_page_id == directory_page.bucket_page_ids_[bucket_index]
           IN  IF IsFull(bucket_pages[bucket_page_id])
               THEN InsertFull(directory_page_id, bucket_index, hash_key, key, value)
               ELSE Outcome(TRUE, header_page, directory_pages,
                            Put(bucket_pages, bucket_page_id,
                                BucketInsert(bucket_pages[bucket_page_id], key, value).bucket),
                            table_pages_)

\* the bucket page the table routes a key to, INVALID_PAGE_ID without directory
BucketPageIdOf(key) ==
  LET hash_key == Hash(key)
      directory_index == HashToDirectoryIndex(header_page, hash_key)
      directory_page_id == header_page.directory_page_ids_[directory_index]
  IN  IF directory_page_id = INVALID_PAGE_ID
      THEN INVALID_PAGE_ID
      ELSE LET directory_page == directory_pages[directory_page_id]
           IN  directory_page.bucket_page_ids_[HashToBucketIndex(directory_page, hash_key)]

GetValueOutcome(key) ==
  LET bucket_page_id == BucketPageIdOf(key)
      r == Lookup(bucket_pages[bucket_page_id], key)
  IN  IF bucket_page_id # INVALID_PAGE_ID /\ r.ret
      THEN [ret |-> TRUE, result |-> <<r.value>>]
      ELSE [ret |-> FALSE, result |-> <<>>]

\* history of a key: never inserted, present with a value, removed, or
\* inserted more than once
Never == [st |-> "never", val |-> 0]

AfterInsert(e, ret, value) ==
  IF e.st = "never"
  THEN IF ret THEN [st |-> "present", val |-> value] ELSE e
  ELSE [st |-> "reused", val |-> 0]

AfterRemove(e) == IF e.st = "present" THEN [st |-> "removed", val |-> 0] ELSE e

\* DiskExtendibleHashTable's constructor on a fresh pool
TableConstructed ==
  /\ header_max_depth_ \in 0 .. MaxHeaderDepth
  /\ directory_max_depth_ \in 0 .. MaxDirDepth
  /\ bucket_max_size_ \in 1 .. MaxBucketSize
  /\ hash_fn_ \in HashFns
  /\ header_page_id_ = 0
  /\ table_pages_ = 1
  /\ header_page = HeaderInit(header_max_depth_)
  /\ directory_pages = <<>>
  /\ bucket_pages = <<>>
  /\ called = NoCall
  /\ expect = [key \in Keys |-> Never]

InitTable ==
  /\ Constructed /\ pool_size_ = PoolSize /\ k_ = MaxK /\ observe = {}
  /\ TableConstructed
  /\ NoScheduler /\ NoGuards /\ NoThreads

Insert(key, value) ==
  \E o \in {InsertOutcome(key, value)} :
      /\ o.table_pages_ <= MaxTablePages
      /\ header_page' = o.header_page
      /\ directory_pages' = o.directory_pages
      /\ bucket_pages' = o.bucket_pages
      /\ table_pages_' = o.table_pages_
      /\ called' = [op |-> "Insert", key |-> key, ret |-> o.ret, result |-> <<>>]
      /\ expect' = [expect EXCEPT ![key] = AfterInsert(@, o.ret, value)]
      /\ UNCHANGED <<mxVars, pgVars, dsVars, bpmVars, header_max_depth_, directory_max_depth_, bucket_max_size_,
                     hash_fn_, header_page_id_>>

GetValue(key) ==
  /\ \E o \in {GetValueOutcome(key)} :
       called' = [op |-> "GetValue", key |-> key, ret |-> o.ret, result |-> o.result]
  /\ UNCHANGED <<mxVars, pgVars, dsVars, bpmVars, header_max_depth_, directory_max_depth_, bucket_max_size_,
                 hash_fn_, header_page_id_, table_pages_, header_page, directory_pages,
                 bucket_pages, expect>>

Remove(key) ==
  LET bucket_page_id == BucketPageIdOf(key)
      r == BucketRemove(bucket_pages[bucket_page_id], key)
  IN  /\ IF bucket_page_id = INVALID_PAGE_ID
         THEN /\ called' = [op |-> "Remove", key |-> key, ret |-> FALSE, result |-> <<>>]
              /\ UNCHANGED bucket_pages
         ELSE /\ called' = [op |-> "Remove", key |-> key, ret |-> r.ret, result |-> <<>>]
              /\ bucket_pages' = [bucket_pages EXCEPT ![bucket_page_id] = r.bucket]
      /\ expect' = [expect EXCEPT ![key] = AfterRemove(@)]
      /\ UNCHANGED <<mxVars, pgVars, dsVars, bpmVars, header_max_depth_, directory_max_depth_, bucket_max_size_,
                     hash_fn_, header_page_id_, table_pages_, header_page, directory_pages>>

\* The page latches a call takes, in the order it takes them: each is held
\* by a guard that is a local variable of the call (or of the helper it calls
\* last), so all of them are held together before the call returns.
Latched(level, page_id, mode) == [level |-> level, page |-> page_id, mode |-> mode]

InsertLatches(key) ==
  LET hash_key == Hash(key)
      directory_index == HashToDirectoryIndex(header_page, hash_key)
      directory_page_id == header_page.directory_page_ids_[directory_index]
      header == <<Latched("header", header_page_id_, "write")>>
  IN  IF directory_page_id = INVALID_PAGE_ID
      THEN header \o <<Latched("directory", table_pages_, "write"),
                       Latched("bucket", table_pages_ + 1, "write")>>
      ELSE LET directory_page == directory_pages[directory_page_id]
               bucket_index == HashToBucketIndex(directory_page, hash_key)
               bucket_page_id == directory_page.bucket_page_ids_[bucket_index]
               found == header \o <<Latched("directory", directory_page_id, "write"),
                                    Latched("bucket", bucket_page_id, "write")>>
           IN  IF IsFull(bucket_pages[bucket_page_id])
               THEN Append(found, Latched("bucket", table_pages_, "write"))
               ELSE found

GetValueLatches(key) ==
  LET hash_key == Hash(key)
      directory_index == HashToDirectoryIndex(header_page, hash_key)
      directory_page_id == header_page.directory_page_ids_[directory_index]
      header == <<Latched("header", header_page_id_, "read")>>
  IN  IF directory_page_id = INVALID_PAGE_ID
      THEN header
      ELSE header \o <<Latched("directory", directory_page_id, "write"),
                       Latched("bucket", BucketPageIdOf(key), "write")>>

RemoveLatches(key) ==
  LET hash_key == Hash(key)
      directory_index == HashToDirectoryIndex(header_page, hash_key)
      directory_page_id == header_page.directory_page_ids_[directory_index]
  IN  IF directory_page_id = INVALID_PAGE_ID
      THEN <<>>
      ELSE <<Latched("directory", directory_page_id, "write"),
             Latched("bucket", BucketPageIdOf(key), "write")>>

NextTable ==
  \/ \E key \in Keys, value \in 1 .. MaxVal : Insert(key, value)
  \/ \E key \in Keys : GetValue(key)
  \/ \E key \in Keys : Remove(key)

SpecTable == InitTable /\ [][NextTable]_vars

\* ------------------------------------------- a directory page on its own
\* One ExtendibleHTableDirectoryPage, kept as directory_pages[1], driven
\* directly by its caller after Init(directory_max_depth_) on a zeroed page.
\* `called` is the call just made, key the bucket_idx passed in.  Callers
\* grow the directory only below its maximum size and keep local depths
\* within the maximum depth.
InitDirectory ==
  /\ Constructed /\ pool_size_ = PoolSize /\ k_ = MaxK /\ observe = {}
  /\ NoScheduler /\ NoGuards /\ NoThreads
  /\ header_max_depth_ = 0
  /\ directory_max_depth_ \in 0 .. MaxDirDepth
  /\ bucket_max_size_ = 0
  /\ hash_fn_ = <<>>
  /\ header_page_id_ = INVALID_PAGE_ID
  /\ table_pages_ = 0
  /\ header_page = <<>>
  /\ directory_pages = <<DirectoryInit(directory_max_depth_)>>
  /\ bucket_pages = <<>>
  /\ called = NoCall
  /\ expect = <<>>

DirectoryFrame ==
  UNCHANGED <<mxVars, pgVars, dsVars, bpmVars, header_max_depth_, directory_max_depth_,
              bucket_max_size_, hash_fn_, header_page_id_, table_pages_, header_page,
              bucket_pages, expect>>

DirectoryCall(op, bucket_idx, directory) ==
  /\ directory_pages' = [directory_pages EXCEPT ![1] = directory]
  /\ called' = [op |-> op, key |-> bucket_idx, ret |-> TRUE, result |-> <<>>]
  /\ DirectoryFrame

Slots == DOMAIN directory_pages[1].bucket_page_ids_

DirectorySetBucketPageId(bucket_idx, bucket_page_id) ==
  DirectoryCall("SetBucketPageId", bucket_idx,
                SetBucketPageId(directory_pages[1], bucket_idx, bucket_page_id))

DirectorySetLocalDepth(bucket_idx, local_depth) ==
  DirectoryCall("SetLocalDepth", bucket_idx,
                SetLocalDepth(directory_pages[1], bucket_idx, local_depth))

DirectoryIncrLocalDepth(bucket_idx) ==
  /\ directory_pages[1].local_depths_[bucket_idx] < directory_pages[1].max_depth_
  /\ DirectoryCall("IncrLocalDepth", bucket_idx,
                   IncrLocalDepth(directory_pages[1], bucket_idx))

DirectoryIncrGlobalDepth ==
  /\ DirectorySize(directory_pages[1]) < DirectoryMaxSize(directory_pages[1])
  /\ DirectoryCall("IncrGlobalDepth", 0, IncrGlobalDepth(directory_pages[1]))

DirectoryDecrGlobalDepth ==
  /\ directory_pages[1].global_depth_ > 0
  /\ DirectoryCall("DecrGlobalDepth", 0, DecrGlobalDepth(directory_pages[1]))

NextDirectory ==
  \/ \E i \in Slots, id \in PageIds : DirectorySetBucketPageId(i, id)
  \/ \E i \in Slots, d \in 0 .. directory_max_depth_ : DirectorySetLocalDepth(i, d)
  \/ \E i \in Slots : DirectoryIncrLocalDepth(i)
  \/ DirectoryIncrGlobalDepth
  \/ DirectoryDecrGlobalDepth

SpecDirectory == InitDirectory /\ [][NextDirectory]_vars

\* ---------------------------------------------- a bucket page on its own
\* One ExtendibleHTableBucketPage, kept as bucket_pages[1], driven directly
\* by its caller after Init(bucket_max_size_).  `called` is the call just
\* made.
InitBucket ==
  /\ Constructed /\ pool_size_ = PoolSize /\ k_ = MaxK /\ observe = {}
  /\ NoScheduler /\ NoGuards /\ NoThreads
  /\ header_max_depth_ = 0
  /\ directory_max_depth_ = 0
  /\ bucket_max_size_ \in 1 .. MaxBucketSize
  /\ hash_fn_ = <<>>
  /\ header_page_id_ = INVALID_PAGE_ID
  /\ table_pages_ = 0
  /\ header_page = <<>>
  /\ directory_pages = <<>>
  /\ bucket_pages = <<BucketInit(bucket_max_size_)>>
  /\ called = NoCall
  /\ expect = <<>>

BucketFrame ==
  UNCHANGED <<mxVars, pgVars, dsVars, bpmVars, header_max_depth_, directory_max_depth_,
              bucket_max_size_, hash_fn_, header_page_id_, table_pages_, header_page,
              directory_pages, expect>>

BucketPageInsert(key, value) ==
  /\ \E r \in {BucketInsert(bucket_pages[1], key, value)} :
       /\ bucket_pages' = [bucket_pages EXCEPT ![1] = r.bucket]
       /\ called' = [op |-> "Insert", key |-> key, ret |-> r.ret, result |-> <<>>]
  /\ BucketFrame

BucketPageRemove(key) ==
  /\ \E r \in {BucketRemove(bucket_pages[1], key)} :
       /\ bucket_pages' = [bucket_pages EXCEPT ![1] = r.bucket]
       /\ called' = [op |-> "Remove", key |-> key, ret |-> r.ret, result |-> <<>>]
  /\ BucketFrame

BucketPageLookup(key) ==
  /\ \E r \in {Lookup(bucket_pages[1], key)} :
       called' = [op |-> "Lookup", key |-> key, ret |-> r.ret,
                  result |-> IF r.ret THEN <<r.value>> ELSE <<>>]
  /\ UNCHANGED bucket_pages
  /\ BucketFrame

NextBucket ==
  \/ \E key \in Keys, value \in 1 .. MaxVal : BucketPageInsert(key, value)
  \/ \E key \in Keys : BucketPageRemove(key)
  \/ \E key \in Keys : BucketPageLookup(key)

SpecBucket == InitBucket /\ [][NextBucket]_vars

\* ------------------------------------------------- the replacer on its own
\* An LRUKReplacer driven directly by a caller: num_frames = NumFrames is
\* kept in pool_size_ (the pool passes its pool_size as num_frames), and
\* there is no pool, page table or file around it.  `last` is the call just
\* made: page is the frame passed in, or the frame Evict returned.
InitReplacer ==
  /\ pool_size_ = NumFrames
  /\ k_ \in 1 .. MaxK
  /\ pages_ = <<>> /\ page_table_ = <<>> /\ free_list_ = <<>>
  /\ next_page_id_ = 0
  /\ node_store_ = <<>>
  /\ current_timestamp_ = 0
  /\ evictable_size_ = 0
  /\ db_io_ = <<>>
  /\ aborted = FALSE
  /\ last = [op |-> "none", page |-> NoFrame, dirty |-> FALSE, ret |-> FALSE]
  /\ note = [p \in PageIds |-> NoteInit]
  /\ observe = {"last"}
  /\ NoTable
  /\ NoScheduler /\ NoGuards /\ NoThreads

\* BUSTUB_ASSERT(expr, message): TRUE when the assertion fails, which ends
\* the program where it stands
BUSTUB_ASSERT(expr) == ~expr

\* what no replacer operation touches
ReplacerFrame ==
  UNCHANGED <<mxVars, pgVars, dsVars, htVars, pool_size_, k_, pages_, page_table_, free_list_, next_page_id_,
              db_io_, note, observe>>

\* LRUKReplacer::RecordAccess(frame_id), frame_id in range
ReplacerRecordAccess(frame_id) ==
  /\ ~aborted
  /\ current_timestamp_ < MaxTime
  /\ current_timestamp_' = current_timestamp_ + 1
  /\ node_store_' = RecordAccess(node_store_, frame_id, current_timestamp_ + 1)
  /\ last' = [op |-> "RecordAccess", page |-> frame_id, dirty |-> FALSE, ret |-> TRUE]
  /\ UNCHANGED <<evictable_size_, aborted>>
  /\ ReplacerFrame

\* LRUKReplacer::SetEvictable(frame_id, set_evictable); the assertion on an
\* untracked frame ends the program
ReplacerSetEvictable(frame_id, set_evictable) ==
  /\ ~aborted
  /\ IF frame_id \notin DOMAIN node_store_
     THEN /\ aborted' = BUSTUB_ASSERT(frame_id \in DOMAIN node_store_)
          /\ UNCHANGED <<node_store_, evictable_size_>>
     ELSE /\ LET se == SetEvictable(node_store_, evictable_size_, frame_id, set_evictable)
             IN node_store_' = se.store /\ evictable_size_' = se.size
          /\ UNCHANGED aborted
  /\ last' = [op |-> "SetEvictable", page |-> frame_id, dirty |-> set_evictable,
              ret |-> frame_id \in DOMAIN node_store_]
  /\ UNCHANGED current_timestamp_
  /\ ReplacerFrame

\* LRUKReplacer::Remove(frame_id); BUSTUB_ASSERT(false, ...) on a tracked
\* non-evictable frame ends the program before the erase
ReplacerRemove(frame_id) ==
  /\ ~aborted
  /\ IF frame_id \notin DOMAIN node_store_
     THEN UNCHANGED <<node_store_, evictable_size_, aborted>>
     ELSE IF ~node_store_[frame_id].is_evictable_
          THEN aborted' = BUSTUB_ASSERT(FALSE) /\ UNCHANGED <<node_store_, evictable_size_>>
          ELSE /\ node_store_' = Erase(node_store_, frame_id)
               /\ evictable_size_' = evictable_size_ - 1
               /\ UNCHANGED aborted
  /\ last' = [op |-> "Remove", page |-> frame_id, dirty |-> FALSE,
              ret |-> frame_id \in DOMAIN node_store_]
  /\ UNCHANGED current_timestamp_
  /\ ReplacerFrame

\* LRUKReplacer::Evict(&frame_id)
ReplacerEvict ==
  /\ ~aborted
  /\ \E evict_id \in Evict(node_store_, current_timestamp_, k_) :
       /\ IF evict_id = NoFrame
          THEN UNCHANGED <<node_store_, evictable_size_>>
          ELSE /\ node_store_' = Erase(node_store_, evict_id)
               /\ evictable_size_' = evictable_size_ - 1
       /\ last' = [op |-> "Evict", page |-> evict_id, dirty |-> FALSE,
                   ret |-> evict_id # NoFrame]
  /\ UNCHANGED <<current_timestamp_, aborted>>
  /\ ReplacerFrame

NextReplacer ==
  \/ \E f \in 0 .. (NumFrames - 1) : ReplacerRecordAccess(f)
  \/ \E f \in 0 .. (NumFrames - 1), b \in BOOLEAN : ReplacerSetEvictable(f, b)
  \/ \E f \in 0 .. (NumFrames - 1) : ReplacerRemove(f)
  \/ ReplacerEvict

SpecReplacer == InitReplacer /\ [][NextReplacer]_vars

\* ------------------------------------------------------- disk scheduler
\* A DiskScheduler over a DiskManager whose file is db_io_.  A DiskRequest
\* is known by its id, the order in which Schedule was called: requests[id]
\* holds is_write_ and page_id_, data_[id] is the buffer its data_ points
\* to and callback_[id] the shared state of its promise.  The caller leaves
\* the buffer alone until the promise is fulfilled.
nullopt == 0

\* Channel<T>::Put: the element goes to the back of the queue
ChannelPut(q, element) == Append(q, element)

\* Channel<T>::Get, which blocks while the queue is empty: the front element
\* and the queue without it
ChannelGet(q) == [element |-> Head(q), queue |-> Tail(q)]

\* a faulty set_value that stores false whatever it is given
SetValueFalse(state, value) == [sets |-> state.sets + 1, value |-> FALSE]

\* std::promise<bool>::set_value on a shared state
SetValue(state, value) == [sets |-> state.sets + 1, value |-> value]

\* DiskScheduler::DiskScheduler: an empty queue and a worker about to call Get
InitScheduler ==
  /\ pool_size_ = 1 /\ k_ = 1
  /\ pages_ = <<>> /\ page_table_ = <<>> /\ free_list_ = <<>>
  /\ next_page_id_ = 0
  /\ node_store_ = <<>>
  /\ current_timestamp_ = 0
  /\ evictable_size_ = 0
  /\ db_io_ = <<>>
  /\ aborted = FALSE
  /\ last = [op |-> "none", page |-> INVALID_PAGE_ID, dirty |-> FALSE, ret |-> FALSE]
  /\ note = [p \in PageIds |-> NoteInit]
  /\ observe = {}
  /\ NoTable
  /\ request_queue_ = <<>>
  /\ background_thread_ = [pc |-> "Get", disk_request |-> 0]
  /\ requests = <<>>
  /\ data_ = <<>>
  /\ callback_ = <<>>
  /\ destructor = "none"
  /\ io_log = <<>>
  /\ NoGuards /\ NoThreads

\* what the scheduler leaves alone besides the file
SchedulerFrame ==
  UNCHANGED <<mxVars, pgVars, htVars, pool_size_, k_, pages_, page_table_, free_list_, next_page_id_,
              node_store_, current_timestamp_, evictable_size_, aborted, last, note,
              observe>>

\* DiskScheduler::Schedule(r) with a fresh promise; a write carries the
\* buffer content `data`, a read a buffer that holds `data` beforehand
Schedule(is_write, page_id, data) ==
  /\ destructor = "none"
  /\ Len(requests) < MaxRequests
  /\ requests' = Append(requests, [is_write_ |-> is_write, page_id_ |-> page_id])
  /\ data_' = Append(data_, data)
  /\ callback_' = Append(callback_, [sets |-> 0, value |-> FALSE])
  /\ request_queue_' = ChannelPut(request_queue_, Len(requests) + 1)
  /\ UNCHANGED <<background_thread_, destructor, io_log, db_io_>>
  /\ SchedulerFrame

\* a faulty worker that drops std::nullopt and calls Get again
WorkerGetDropsSentinel ==
  /\ background_thread_.pc = "Get"
  /\ request_queue_ # <<>>
  /\ LET got == ChannelGet(request_queue_)
     IN /\ request_queue_' = got.queue
        /\ background_thread_' =
             IF got.element = nullopt
             THEN [pc |-> "Get", disk_request |-> nullopt]
             ELSE [pc |-> "disk", disk_request |-> got.element]
  /\ UNCHANGED <<requests, data_, callback_, destructor, io_log, db_io_>>
  /\ SchedulerFrame

\* StartWorkerThread: request_queue_.Get() and the test for std::nullopt
WorkerGet ==
  /\ background_thread_.pc = "Get"
  /\ request_queue_ # <<>>
  /\ LET got == ChannelGet(request_queue_)
     IN /\ request_queue_' = got.queue
        /\ background_thread_' =
             IF got.element = nullopt
             THEN [pc |-> "returned", disk_request |-> nullopt]
             ELSE [pc |-> "disk", disk_request |-> got.element]
  /\ UNCHANGED <<requests, data_, callback_, destructor, io_log, db_io_>>
  /\ SchedulerFrame

\* StartWorkerThread: the WritePage or ReadPage call of the request in hand
WorkerDisk ==
  /\ background_thread_.pc = "disk"
  /\ LET r == background_thread_.disk_request
     IN /\ IF requests[r].is_write_
           THEN /\ db_io_' = WritePage(db_io_, requests[r].page_id_, data_[r])
                /\ UNCHANGED data_
           ELSE /\ data_' = [data_ EXCEPT ![r] =
                               ReadPage(db_io_, requests[r].page_id_, data_[r])]
                /\ UNCHANGED db_io_
        /\ io_log' = Append(io_log, r)
  /\ background_thread_' = [background_thread_ EXCEPT !.pc = "set_value"]
  /\ UNCHANGED <<request_queue_, requests, callback_, destructor>>
  /\ SchedulerFrame

\* StartWorkerThread: disk_request->callback_.set_value(true)
WorkerSetValue ==
  /\ background_thread_.pc = "set_value"
  /\ callback_' = [callback_ EXCEPT ![background_thread_.disk_request] =
                     SetValue(@, TRUE)]
  /\ background_thread_' = [pc |-> "Get", disk_request |-> nullopt]
  /\ UNCHANGED <<request_queue_, requests, data_, destructor, io_log, db_io_>>
  /\ SchedulerFrame

\* DiskScheduler::~DiskScheduler: request_queue_.Put(std::nullopt) ...
Destroy ==
  /\ destructor = "none"
  /\ request_queue_' = ChannelPut(request_queue_, nullopt)
  /\ destructor' = "join"
  /\ UNCHANGED <<background_thread_, requests, data_, callback_, io_log, db_io_>>
  /\ SchedulerFrame

\* ... and background_thread_->join(), which returns once the worker has
Join ==
  /\ destructor = "join"
  /\ background_thread_.pc = "returned"
  /\ destructor' = "joined"
  /\ UNCHANGED <<request_queue_, background_thread_, requests, data_, callback_,
                 io_log, db_io_>>
  /\ SchedulerFrame

NextScheduler ==
  \/ \E w \in BOOLEAN, p \in PageIds, d \in 0 .. MaxVal : Schedule(w, p, d)
  \/ WorkerGet
  \/ WorkerDisk
  \/ WorkerSetValue
  \/ Destroy
  \/ Join

SpecScheduler == InitScheduler /\ [][NextScheduler]_vars

\* the worker thread keeps running while it has a step to take, and a
\* thread blocked in join resumes once the worker has returned
SpecSchedulerLive ==
  SpecScheduler /\ WF_vars(WorkerGet) /\ WF_vars(WorkerDisk)
                /\ WF_vars(WorkerSetValue) /\ WF_vars(Join)

\* ------------------------------------------------------------ page guards
\* One caller thread takes pages from the pool through guards.  A guard's
\* page_ is the frame its Page pointer points at; nullptr is no frame.
nullptr == NoFrame

GuardSlots == 1 .. MaxGuards

\* a slot that holds no guard object
NoGuard == [kind |-> "none", bpm_ |-> FALSE, page_ |-> nullptr,
            is_dirty_ |-> FALSE, pin |-> 0, dropped |-> FALSE]

\* the guard of slot g once its fields are nulled
Released(g) == [guards[g] EXCEPT !.bpm_ = FALSE, !.page_ = nullptr, !.pin = 0]

\* the guard of slot g after its Drop has released its page (dropped is
\* history: it tells a dropped guard from a moved-from one)
Dropped(g) == [Released(g) EXCEPT !.dropped = TRUE]

\* Page::rwlatch_, a reader-writer latch
Unlatched == [readers |-> 0, writer |-> FALSE]
CanRLatch(l, f) == ~l[f].writer
CanWLatch(l, f) == ~l[f].writer /\ l[f].readers = 0
RLatch(l, f)   == [l EXCEPT ![f].readers = @ + 1]
RUnlatch(l, f) == [l EXCEPT ![f].readers = @ - 1]
WLatch(l, f)   == [l EXCEPT ![f].writer = TRUE]
WUnlatch(l, f) == [l EXCEPT ![f].writer = FALSE]

InitGuard ==
  /\ Constructed /\ NoTable /\ NoScheduler
  /\ pool_size_ = 1
  /\ observe = {"last"}
  /\ guards = [g \in GuardSlots |-> NoGuard]
  /\ rwlatch_ = [f \in DOMAIN pages_ |-> Unlatched]
  /\ segv = FALSE
  /\ pins = <<>>
  /\ inert_calls = 0
  /\ NoThreads

\* history: the pin a new guard was created with
NewPin(f, latch) ==
  [frame |-> f, latch |-> latch, unpins |-> 0, unlatches |-> 0,
   mutated |-> FALSE, dirty |-> FALSE]

\* the guard {bpm, page} of the given kind, built in slot g
Construct(g, kind, page, latch) ==
  /\ Len(pins) < MaxPins
  /\ guards' = [guards EXCEPT ![g] =
                  [kind |-> kind, bpm_ |-> TRUE, page_ |-> page,
                   is_dirty_ |-> FALSE,
                   pin |-> IF page = nullptr THEN 0 ELSE Len(pins) + 1,
                   dropped |-> FALSE]]
  /\ pins' = IF page = nullptr THEN pins ELSE Append(pins, NewPin(page, latch))

\* the Page pointer the pool's NewPage or FetchPage has just returned
Returned == IF last'.ret THEN page_table_'[last'.page] ELSE nullptr

\* BufferPoolManager::NewPageGuarded
NewPageGuarded(g) ==
  /\ ~segv
  /\ guards[g].kind = "none"
  /\ NewPage
  /\ Construct(g, "basic", Returned, "none")
  /\ UNCHANGED <<rwlatch_, segv, inert_calls>>

\* BufferPoolManager::FetchPageBasic
FetchPageBasic(g, page_id) ==
  /\ ~segv
  /\ guards[g].kind = "none"
  /\ FetchPage(page_id)
  /\ Construct(g, "basic", Returned, "none")
  /\ UNCHANGED <<rwlatch_, segv, inert_calls>>

\* BufferPoolManager::FetchPageRead: page->RLatch() is called on whatever
\* FetchPage returned; on nullptr the call ends the program.  The caller
\* does not ask for a latch that it would wait for on itself.
FetchPageRead(g, page_id) ==
  /\ ~segv
  /\ guards[g].kind = "none"
  /\ FetchPage(page_id)
  /\ IF Returned = nullptr
     THEN /\ segv' = TRUE
          /\ UNCHANGED <<guards, rwlatch_, pins, inert_calls>>
     ELSE /\ CanRLatch(rwlatch_, Returned)
          /\ rwlatch_' = RLatch(rwlatch_, Returned)
          /\ Construct(g, "read", Returned, "read")
          /\ UNCHANGED <<segv, inert_calls>>

\* BufferPoolManager::FetchPageWrite
FetchPageWrite(g, page_id) ==
  /\ ~segv
  /\ guards[g].kind = "none"
  /\ FetchPage(page_id)
  /\ IF Returned = nullptr
     THEN /\ segv' = TRUE
          /\ UNCHANGED <<guards, rwlatch_, pins, inert_calls>>
     ELSE /\ CanWLatch(rwlatch_, Returned)
          /\ rwlatch_' = WLatch(rwlatch_, Returned)
          /\ Construct(g, "write", Returned, "write")
          /\ UNCHANGED <<segv, inert_calls>>

\* the move constructors: BasicPageGuard(BasicPageGuard &&), and for a read
\* or write guard the move assignment of guard_ into a default-constructed
\* member, which has nothing to unpin
MoveGuard(g, h) ==
  /\ ~segv
  /\ guards[g].kind # "none"
  /\ guards[h].kind = "none"
  /\ guards' = [guards EXCEPT
                  ![h] = guards[g],
                  ![g] = [@ EXCEPT !.bpm_ = FALSE, !.page_ = nullptr, !.pin = 0]]
  /\ UNCHANGED <<bpmVars, htVars, dsVars, rwlatch_, segv, pins, inert_calls>>

\* the move assignments h = std::move(g): BasicPageGuard::operator=, and
\* ReadPageGuard's and WritePageGuard's, which only assign the member
\* guard_.  The target's page is unpinned when bpm_ or page_ is set, through
\* PageId(), which reads page_; the source's fields are taken over and
\* nulled.
MoveAssignGuard(g, h) ==
  /\ ~segv
  /\ g # h
  /\ guards[g].kind # "none"
  /\ guards[h].kind = guards[g].kind
  /\ IF guards[h].bpm_ \/ guards[h].page_ # nullptr
     THEN IF guards[h].page_ = nullptr
          THEN /\ segv' = TRUE
               /\ UNCHANGED <<bpmVars, htVars, dsVars, guards, pins>>
          ELSE /\ UnpinPage(pages_[guards[h].page_].page_id_, guards[h].is_dirty_)
               /\ pins' = [pins EXCEPT ![guards[h].pin].unpins = @ + 1,
                                       ![guards[h].pin].dirty = guards[h].is_dirty_]
               /\ guards' = [guards EXCEPT
                               ![h] = [guards[g] EXCEPT !.dropped = FALSE],
                               ![g] = Released(g)]
               /\ UNCHANGED segv
     ELSE /\ guards' = [guards EXCEPT
                          ![h] = [guards[g] EXCEPT !.dropped = FALSE],
                          ![g] = Released(g)]
          /\ UNCHANGED <<bpmVars, htVars, dsVars, segv, pins>>
  /\ UNCHANGED <<rwlatch_, inert_calls>>

\* BasicPageGuard::GetDataMut and AsMut, and the write guard's, which
\* forward to them
GetDataMut(g) ==
  /\ ~segv
  /\ guards[g].kind \in {"basic", "write"}
  /\ guards[g].page_ # nullptr
  /\ guards' = [guards EXCEPT ![g].is_dirty_ = TRUE]
  /\ pins' = [pins EXCEPT ![guards[g].pin].mutated = TRUE]
  /\ UNCHANGED <<bpmVars, htVars, dsVars, rwlatch_, segv, inert_calls>>

\* BasicPageGuard::Drop on the guard in slot g, which is left as `after`
\* when Drop returns early and as `dropped` when it unpinned; ps is the
\* history so far
BasicDrop(g, ps, after, dropped) ==
  LET page == guards[g].page_
  IN IF page = nullptr \/ pages_[page].pin_count_ <= 0
     THEN /\ guards' = [guards EXCEPT ![g] = after]
          /\ pins' = ps
          /\ UNCHANGED <<bpmVars, htVars, dsVars>>
     ELSE /\ UnpinPage(pages_[page].page_id_, guards[g].is_dirty_)
          /\ guards' = [guards EXCEPT ![g] = dropped]
          /\ pins' = [ps EXCEPT ![guards[g].pin].unpins = @ + 1,
                                ![guards[g].pin].dirty = guards[g].is_dirty_]

\* history: one more unlatch by the pin of the guard in slot g
Unlatches(g) == [pins EXCEPT ![guards[g].pin].unlatches = @ + 1]

\* BasicPageGuard::Drop, ReadPageGuard::Drop and WritePageGuard::Drop.  The
\* latter two call guard_.page_->RUnlatch() / WUnlatch() first, whatever
\* page_ is; through nullptr the call ends the program.
DropGuard(g) ==
  /\ ~segv
  /\ guards[g].kind # "none"
  /\ IF guards[g].kind = "basic"
     THEN /\ BasicDrop(g, pins, guards[g], Dropped(g))
          /\ UNCHANGED <<rwlatch_, segv, inert_calls>>
     ELSE IF guards[g].page_ = nullptr
          THEN /\ segv' = TRUE
               /\ inert_calls' = inert_calls + 1
               /\ UNCHANGED <<bpmVars, htVars, dsVars, guards, rwlatch_, pins>>
          ELSE /\ rwlatch_' = IF guards[g].kind = "read"
                              THEN RUnlatch(rwlatch_, guards[g].page_)
                              ELSE WUnlatch(rwlatch_, guards[g].page_)
               /\ BasicDrop(g, Unlatches(g), guards[g], Dropped(g))
               /\ UNCHANGED <<segv, inert_calls>>

\* the destructors: ~ReadPageGuard and ~WritePageGuard unlatch when page_
\* and bpm_ are set, then ~BasicPageGuard of the member guard_ calls Drop
\* when both are set; the object is gone afterwards
DestroyGuard(g) ==
  /\ ~segv
  /\ guards[g].kind # "none"
  /\ IF guards[g].page_ # nullptr /\ guards[g].bpm_
     THEN /\ rwlatch_' = IF guards[g].kind = "read"
                         THEN RUnlatch(rwlatch_, guards[g].page_)
                         ELSE IF guards[g].kind = "write"
                              THEN WUnlatch(rwlatch_, guards[g].page_)
                              ELSE rwlatch_
          /\ BasicDrop(g, IF guards[g].kind = "basic" THEN pins ELSE Unlatches(g),
                       NoGuard, NoGuard)
     ELSE /\ guards' = [guards EXCEPT ![g] = NoGuard]
          /\ UNCHANGED <<bpmVars, htVars, dsVars, rwlatch_, pins>>
  /\ UNCHANGED <<segv, inert_calls>>

\* BasicPageGuard::UpgradeRead: latches page_, whatever it is, and returns
\* the read guard {bpm_, page_} in slot h
UpgradeRead(g, h) ==
  /\ ~segv
  /\ guards[g].kind = "basic"
  /\ guards[h].kind = "none"
  /\ IF guards[g].page_ = nullptr
     THEN /\ segv' = TRUE
          /\ UNCHANGED <<guards, rwlatch_, pins>>
     ELSE /\ CanRLatch(rwlatch_, guards[g].page_)
          /\ rwlatch_' = RLatch(rwlatch_, guards[g].page_)
          /\ guards' = [guards EXCEPT
                          ![h] = [kind |-> "read", bpm_ |-> guards[g].bpm_,
                                  page_ |-> guards[g].page_,
                                  is_dirty_ |-> FALSE, pin |-> guards[g].pin,
                                  dropped |-> FALSE],
                          ![g] = Released(g)]
          /\ pins' = [pins EXCEPT ![guards[g].pin].latch = "read"]
          /\ UNCHANGED segv
  /\ UNCHANGED <<bpmVars, htVars, dsVars, inert_calls>>

\* BasicPageGuard::UpgradeWrite
UpgradeWrite(g, h) ==
  /\ ~segv
  /\ guards[g].kind = "basic"
  /\ guards[h].kind = "none"
  /\ IF guards[g].page_ = nullptr
     THEN /\ segv' = TRUE
          /\ UNCHANGED <<guards, rwlatch_, pins>>
     ELSE /\ CanWLatch(rwlatch_, guards[g].page_)
          /\ rwlatch_' = WLatch(rwlatch_, guards[g].page_)
          /\ guards' = [guards EXCEPT
                          ![h] = [kind |-> "write", bpm_ |-> guards[g].bpm_,
                                  page_ |-> guards[g].page_,
                                  is_dirty_ |-> FALSE, pin |-> guards[g].pin,
                                  dropped |-> FALSE],
                          ![g] = Released(g)]
          /\ pins' = [pins EXCEPT ![guards[g].pin].latch = "write"]
          /\ UNCHANGED segv
  /\ UNCHANGED <<bpmVars, htVars, dsVars, inert_calls>>

NextGuard ==
  \/ \E g \in GuardSlots : NewPageGuarded(g) /\ UNCHANGED mxVars
  \/ \E g \in GuardSlots, p \in PageIds : FetchPageBasic(g, p) /\ UNCHANGED mxVars
  \/ \E g \in GuardSlots, p \in PageIds : FetchPageRead(g, p) /\ UNCHANGED mxVars
  \/ \E g \in GuardSlots, p \in PageIds : FetchPageWrite(g, p) /\ UNCHANGED mxVars
  \/ \E g, h \in GuardSlots : MoveGuard(g, h) /\ UNCHANGED mxVars
  \/ \E g, h \in GuardSlots : MoveAssignGuard(g, h) /\ UNCHANGED mxVars
  \/ \E g \in GuardSlots : GetDataMut(g) /\ UNCHANGED mxVars
  \/ \E g \in GuardSlots : DropGuard(g) /\ UNCHANGED mxVars
  \/ \E g \in GuardSlots : DestroyGuard(g) /\ UNCHANGED mxVars
  \/ \E g, h \in GuardSlots : UpgradeRead(g, h) /\ UNCHANGED mxVars
  \/ \E g, h \in GuardSlots : UpgradeWrite(g, h) /\ UNCHANGED mxVars

SpecGuard == InitGuard /\ [][NextGuard]_vars

\* ------------------------------------------- threads calling into the pool
\* Each thread makes one pool call at a time.  A call that starts with
\* std::unique_lock<std::mutex> lock(latch_) waits for the mutex ("lock"),
\* runs its body owning it ("in") and gives it back when it returns; a call
\* that takes no lock is in its body as soon as it is made.
Threads == 1 .. NumThreads

Idle == [pc |-> "idle", op |-> "none", page |-> INVALID_PAGE_ID, dirty |-> FALSE]

\* the pool operations whose body starts by locking latch_
Locking == {"NewPage", "FetchPage", "UnpinPage", "DeletePage"}
BpmOps  == Locking \cup {"FlushPage", "FlushAllPages"}

\* the arguments an operation takes
PageArgs(op)  == IF op \in {"NewPage", "FlushAllPages"} THEN {INVALID_PAGE_ID} ELSE PageIds
DirtyArgs(op) == IF op = "UnpinPage" THEN BOOLEAN ELSE {FALSE}

InitThreads ==
  /\ Constructed /\ NoTable /\ NoScheduler /\ NoGuards
  /\ pool_size_ = 1
  /\ observe = {}
  /\ latch_ = 0
  /\ thread = [t \in Threads |-> Idle]
  /\ raced = FALSE

\* thread t is between the start of an operation's body and its return
InBody(t) == thread[t].pc = "in"

\* thread t calls op: it goes for the mutex if op's body locks it, and into
\* the body otherwise
Call(t, op, page_id, is_dirty) ==
  /\ ~raced
  /\ thread[t].pc = "idle"
  /\ thread' = [thread EXCEPT ![t] =
                  [pc |-> IF op \in Locking THEN "lock" ELSE "in",
                   op |-> op, page |-> page_id, dirty |-> is_dirty]]
  /\ UNCHANGED <<bpmVars, htVars, dsVars, pgVars, latch_, raced>>

\* std::unique_lock<std::mutex> lock(latch_)
Lock(t) ==
  /\ ~raced
  /\ thread[t].pc = "lock"
  /\ latch_ = 0
  /\ latch_' = t
  /\ thread' = [thread EXCEPT ![t].pc = "in"]
  /\ UNCHANGED <<bpmVars, htVars, dsVars, pgVars, raced>>

\* the body of thread t's call, run while no other thread is in a body, and
\* its return, where the unique_lock's destructor unlocks latch_
Run(t, body) ==
  /\ ~raced
  /\ InBody(t)
  /\ \A u \in Threads \ {t} : ~InBody(u)
  /\ body
  /\ latch_' = IF latch_ = t THEN 0 ELSE latch_
  /\ thread' = [thread EXCEPT ![t] = Idle]
  /\ UNCHANGED <<pgVars, raced>>

\* two threads are in a body at once: their reads and writes of the page
\* table, the frames and the replacer are unordered, and what the program
\* does from there on is not defined
Race(t) ==
  /\ ~raced
  /\ InBody(t)
  /\ \E u \in Threads \ {t} : InBody(u)
  /\ raced' = TRUE
  /\ UNCHANGED <<bpmVars, htVars, dsVars, pgVars, latch_, thread>>

NextThreads ==
  \/ \E t \in Threads, op \in BpmOps :
       \E p \in PageArgs(op), d \in DirtyArgs(op) : Call(t, op, p, d)
  \/ \E t \in Threads : Lock(t)
  \/ \E t \in Threads : thread[t].op = "NewPage" /\ Run(t, NewPage)
  \/ \E t \in Threads : thread[t].op = "FetchPage" /\ Run(t, FetchPage(thread[t].page))
  \/ \E t \in Threads : thread[t].op = "UnpinPage"
                          /\ Run(t, UnpinPage(thread[t].page, thread[t].dirty))
  \/ \E t \in Threads : thread[t].op = "DeletePage" /\ Run(t, DeletePage(thread[t].page))
  \/ \E t \in Threads : thread[t].op = "FlushPage" /\ Run(t, FlushPage(thread[t].page))
  \/ \E t \in Threads : thread[t].op = "FlushAllPages" /\ Run(t, FlushAllPages)
  \/ \E t \in Threads : Race(t)

SpecThreads == InitThreads /\ [][NextThreads]_vars

\* ------------------------------------- threads calling into the hash table
\* Threads run Insert, GetValue and Remove on one table.  A call walks from
\* the header page to a directory page to a bucket page; for each it calls
\* FetchPageBasic, FetchPageRead or FetchPageWrite, which locks the pool's
\* latch_ ("lock"), runs FetchPage and unlocks ("in"), and then asks for the
\* page's latch ("latch"), waiting until it can have it.  With all three
\* pages in hand the call does its work and returns ("return"): the guards
\* go out of scope, unlatch their pages and unpin them, for which UnpinPage
\* locks latch_ once more.  NewPageGuarded().UpgradeWrite() latches a page no
\* other thread has the id of, so it is part of the step that makes the page.
Levels == <<"header", "directory", "bucket">>

\* the order in which op fetches the three pages
LatchOrderRemoveBucketFirst(op) ==
  IF op = "Remove" THEN <<"header", "bucket", "directory">> ELSE Levels

LatchOrder(op) == Levels

\* the latch op's guard on a page of that level takes
LatchMode(op, level) ==
  IF op = "Insert" THEN "write"
  ELSE IF level # "header" THEN "write"
  ELSE IF op = "GetValue" THEN "read"
  ELSE "none"

TableIdle(calls) ==
  [pc |-> "idle", op |-> "none", key |-> 0, value |-> 0, at |-> 0,
   directory_page_id |-> INVALID_PAGE_ID, bucket_page_id |-> INVALID_PAGE_ID,
   held |-> {}, calls |-> calls]

\* a table of two directories of two buckets of one entry each, under a hash
\* function that tells keys apart, so that calls meet on a page, split
\* buckets and fill a directory
InitTableThreads ==
  /\ Constructed /\ pool_size_ = PoolSize /\ k_ = MaxK /\ observe = {}
  /\ TableConstructed
  /\ header_max_depth_ = MaxHeaderDepth /\ directory_max_depth_ = 1 /\ bucket_max_size_ = 1
  /\ hash_fn_[0] # hash_fn_[1]
  /\ NoScheduler
  /\ guards = <<>> /\ segv = FALSE /\ pins = <<>> /\ inert_calls = 0
  /\ rwlatch_ = [page_id \in 0 .. (MaxTablePages - 1) |-> Unlatched]
  /\ latch_ = 0
  /\ thread = [t \in Threads |-> TableIdle(0)]
  /\ raced = FALSE

TableThreadFrame ==
  UNCHANGED <<bpmVars, dsVars, guards, segv, pins, inert_calls, raced,
              header_max_depth_, directory_max_depth_, bucket_max_size_, hash_fn_,
              header_page_id_, called, expect>>

TablePagesFrame == UNCHANGED <<table_pages_, header_page, directory_pages, bucket_pages>>

\* the level thread record th is at, and the page it fetches there
LevelOf(th) == LatchOrder(th.op)[th.at]

PageOf(th) ==
  IF LevelOf(th) = "header" THEN header_page_id_
  ELSE IF LevelOf(th) = "directory" THEN th.directory_page_id
  ELSE th.bucket_page_id

\* the threads in an Insert, each of which may still ask NewPageGuarded for
\* two pages
Inserting == {t \in Threads : thread[t].op = "Insert"}

\* thread t calls op
TableCall(t, op, key, value) ==
  /\ thread[t].pc = "idle"
  /\ thread[t].calls < MaxCalls
  /\ op = "Insert" => table_pages_ + 2 * (Cardinality(Inserting) + 1) <= MaxTablePages
  /\ thread' = [thread EXCEPT ![t] =
                  [TableIdle(thread[t].calls + 1) EXCEPT
                     !.pc = "lock", !.op = op, !.key = key, !.value = value, !.at = 1]]
  /\ UNCHANGED <<latch_, rwlatch_>>
  /\ TablePagesFrame /\ TableThreadFrame

\* FetchPage: std::unique_lock<std::mutex> lock(latch_)
TableLock(t) ==
  /\ thread[t].pc = "lock"
  /\ latch_ = 0
  /\ latch_' = t
  /\ thread' = [thread EXCEPT ![t].pc = "in"]
  /\ UNCHANGED rwlatch_
  /\ TablePagesFrame /\ TableThreadFrame

\* what the call reads from the page it now has, and where it goes next:
\* the directory page id from the header page, the bucket page id from the
\* directory page when the bucket page is the next to fetch
Entered(th) ==
  LET hash_key == Hash(th.key)
      directory_page_id ==
        IF LevelOf(th) = "header"
        THEN header_page.directory_page_ids_[HashToDirectoryIndex(header_page, hash_key)]
        ELSE th.directory_page_id
      at_end == th.at = Len(LatchOrder(th.op))
      bucket_page_id ==
        IF ~at_end /\ LatchOrder(th.op)[th.at + 1] = "bucket"
             /\ directory_page_id # INVALID_PAGE_ID
        THEN LET directory_page == directory_pages[directory_page_id]
             IN  directory_page.bucket_page_ids_[HashToBucketIndex(directory_page, hash_key)]
        ELSE th.bucket_page_id
  IN  [th EXCEPT !.directory_page_id = directory_page_id,
                 !.bucket_page_id = bucket_page_id,
                 !.pc = IF directory_page_id = INVALID_PAGE_ID \/ at_end
                        THEN "return" ELSE "lock",
                 !.at = IF directory_page_id = INVALID_PAGE_ID \/ at_end THEN @ ELSE @ + 1]

\* FetchPage's body and its return, which unlocks latch_; FetchPageBasic
\* hands the page out as it is
TableFetch(t) ==
  /\ thread[t].pc = "in"
  /\ latch_ = t
  /\ latch_' = 0
  /\ thread' = [thread EXCEPT ![t] =
                  IF LatchMode(@.op, LevelOf(@)) = "none"
                  THEN Entered(@)
                  ELSE [@ EXCEPT !.pc = "latch"]]
  /\ UNCHANGED rwlatch_
  /\ TablePagesFrame /\ TableThreadFrame

\* FetchPageRead's RLatch and FetchPageWrite's WLatch
TableLatch(t) ==
  LET th == thread[t]
      mode == LatchMode(th.op, LevelOf(th))
  IN  /\ th.pc = "latch"
      /\ IF mode = "read"
         THEN /\ CanRLatch(rwlatch_, PageOf(th))
              /\ rwlatch_' = RLatch(rwlatch_, PageOf(th))
         ELSE /\ CanWLatch(rwlatch_, PageOf(th))
              /\ rwlatch_' = WLatch(rwlatch_, PageOf(th))
      /\ thread' = [thread EXCEPT ![t] =
                      Entered([th EXCEPT !.held = @ \cup {[page |-> PageOf(th), mode |-> mode]}])]
      /\ UNCHANGED latch_
      /\ TablePagesFrame /\ TableThreadFrame

\* the latches of l without those in held
RECURSIVE UnlatchAll(_, _)
UnlatchAll(l, held) ==
  IF held = {} THEN l
  ELSE LET h == CHOOSE x \in held : TRUE
       IN  UnlatchAll(IF h.mode = "read" THEN RUnlatch(l, h.page) ELSE WUnlatch(l, h.page),
                      held \ {h})

\* the rest of the call once its pages are fetched, and its return
TableReturn(t) ==
  LET th == thread[t]
  IN  /\ th.pc = "return"
      /\ latch_ = 0
      /\ IF th.op = "Insert"
         THEN \E o \in {InsertOutcome(th.key, th.value)} :
                /\ header_page' = o.header_page
                /\ directory_pages' = o.directory_pages
                /\ bucket_pages' = o.bucket_pages
                /\ table_pages_' = o.table_pages_
         ELSE IF th.op = "Remove" /\ th.directory_page_id # INVALID_PAGE_ID
         THEN /\ bucket_pages' = [bucket_pages EXCEPT ![th.bucket_page_id] =
                                    BucketRemove(@, th.key).bucket]
              /\ UNCHANGED <<table_pages_, header_page, directory_pages>>
         ELSE TablePagesFrame
      /\ rwlatch_' = UnlatchAll(rwlatch_, th.held)
      /\ thread' = [thread EXCEPT ![t] = TableIdle(th.calls)]
      /\ UNCHANGED latch_
      /\ TableThreadFrame

TableStep(t) == TableLock(t) \/ TableFetch(t) \/ TableLatch(t) \/ TableReturn(t)

NextTableThreads ==
  \/ \E t \in Threads, key \in Keys, value \in 1 .. MaxVal : TableCall(t, "Insert", key, value)
  \/ \E t \in Threads, key \in Keys : TableCall(t, "GetValue", key, 0)
  \/ \E t \in Threads, key \in Keys : TableCall(t, "Remove", key, 0)
  \/ \E t \in Threads : TableLock(t)
  \/ \E t \in Threads : TableFetch(t)
  \/ \E t \in Threads : TableLatch(t)
  \/ \E t \in Threads : TableReturn(t)

SpecTableThreads == InitTableThreads /\ [][NextTableThreads]_vars

\* a thread that can take a step is not held back forever
SpecTableThreadsLive == SpecTableThreads /\ \A t \in Threads : WF_vars(TableStep(t))

\* ================================================================ claims
Range(f) == {f[x] : x \in DOMAIN f}
Resident == DOMAIN page_table_
FrameOf(p) == pages_[page_table_[p]]
Evictable(f) == f \in DOMAIN node_store_ /\ node_store_[f].is_evictable_

\* C1: every resident page has pin_count >= 0, and its frame is
\* non-evictable in the replacer exactly when its pin_count > 0.
C1_PinnedIffNonEvictable ==
  \A p \in Resident :
    /\ FrameOf(p).pin_count_ >= 0
    /\ (FrameOf(p).pin_count_ > 0) <=> ~Evictable(page_table_[p])

\* a pinned page and an unpinned, evictable page are resident together
C1_Witness ==
  \E p, q \in Resident :
    /\ FrameOf(p).pin_count_ > 0 /\ ~Evictable(page_table_[p])
    /\ FrameOf(q).pin_count_ = 0 /\ Evictable(page_table_[q])

\* C2: the free list and the frames mapped in the page table are disjoint
\* and together hold every frame id of the pool exactly once.
C2_FramesPartitioned ==
  /\ \A i, j \in DOMAIN free_list_ : i # j => free_list_[i] # free_list_[j]
  /\ \A p, q \in Resident : p # q => page_table_[p] # page_table_[q]
  /\ Range(free_list_) \cap Range(page_table_) = {}
  /\ Range(free_list_) \cup Range(page_table_) = 0 .. (pool_size_ - 1)

\* C3: a page whose last modification was followed by a successful
\* UnpinPage(p, true), and that was evicted and fetched again, holds the
\* last content written.
C3_ReadYourWrites ==
  \A p \in Resident : note[p].cycled => FrameOf(p).data_ = note[p].val

\* C6: a successful UnpinPage(p, is_dirty) leaves the dirty bit at
\* (old dirty bit OR is_dirty).
C6_UnpinOrsDirty ==
  [][\A p \in PageIds, d \in BOOLEAN :
       (/\ p \in Resident
        /\ FrameOf(p).pin_count_ > 0
        /\ UnpinPage(p, d))
       => pages_'[page_table_[p]].is_dirty_ = (FrameOf(p).is_dirty_ \/ d)]_vars

\* C7: a page created by NewPage, never written, unpinned once with
\* is_dirty = false, evicted and fetched again holds the all-zero buffer.
C7_RefetchedNewPageIsZero ==
  \A p \in Resident : note[p].clean = "refetched" => FrameOf(p).data_ = 0

\* C8: when NewPage or FetchPage reuses a frame that holds a dirty page, the
\* buffer of that page is on disk, at the page's own id, after the call.
C8_DirtyVictimWrittenBack ==
  [][\A t \in TakeFrame :
       (/\ ~aborted
        /\ t.evicted # INVALID_PAGE_ID
        /\ pages_[t.frame].is_dirty_
        /\ (NewPageWith(t) \/ \E p \in PageIds \ Resident : FetchMissWith(p, t)))
       => /\ Len(db_io_') > t.evicted
          /\ db_io_'[t.evicted + 1] = pages_[t.frame].data_]_vars

\* C9: NewPage and FetchPage of a non-resident page can return null exactly
\* when the free list is empty and the replacer has no evictable frame.
C9_NullIffNoFrame ==
  (\E t \in TakeFrame : t.frame = NoFrame)
    <=> (free_list_ = <<>> /\ ~\E f \in DOMAIN node_store_ : Evictable(f))

\* C10: the ids NewPage returns increase by one from 0, and no id is
\* returned while a page with that id is resident.
C10_FreshPageIds ==
  [][\A t \in TakeFrame :
       (~aborted /\ t.frame # NoFrame /\ NewPageWith(t))
       => /\ next_page_id_' = next_page_id_ + 1
          /\ next_page_id_ \in DOMAIN page_table_'
          /\ next_page_id_ \notin DOMAIN t.table]_vars

\* C4: with unique keys, GetValue(k) returns true with exactly {v} after
\* Insert(k, v) returned true and until Remove(k), and returns false with
\* an empty result after Remove(k), whatever splits other inserts caused.
C4_TableIsMapping ==
  called.op = "GetValue" =>
    /\ expect[called.key].st = "present"
         => called.ret /\ called.result = <<expect[called.key].val>>
    /\ expect[called.key].st = "removed"
         => ~called.ret /\ called.result = <<>>

Live(directory) == 0 .. ((2 ^ directory.global_depth_) - 1)

\* what ExtendibleHTableDirectoryPage::VerifyIntegrity is documented to check
VerifyIntegrity(directory) ==
  /\ \A i \in Live(directory) : directory.local_depths_[i] <= directory.global_depth_
  /\ \A i \in Live(directory) :
       Cardinality({j \in Live(directory) :
                      directory.bucket_page_ids_[j] = directory.bucket_page_ids_[i]})
         = 2 ^ (directory.global_depth_ - directory.local_depths_[i])
  /\ \A i, j \in Live(directory) :
       directory.bucket_page_ids_[i] = directory.bucket_page_ids_[j]
         => directory.local_depths_[i] = directory.local_depths_[j]

\* C5: after any sequence of Insert and Remove calls, in every directory
\* page each live index has local depth <= global depth g, each bucket page
\* id is held by exactly 2^(g - local depth) live indices, and live indices
\* with the same bucket page id have the same local depth.
C5_DirectoryIntegrity ==
  \A d \in DOMAIN directory_pages : VerifyIntegrity(directory_pages[d])

\* a Remove has just succeeded on a table whose directory has doubled twice
\* and holds buckets of local depth 1 and 2
C5_Witness ==
  /\ called.op = "Remove" /\ called.ret
  /\ \E d \in DOMAIN directory_pages :
       /\ directory_pages[d].global_depth_ = 2
       /\ \E i, j \in Live(directory_pages[d]) :
            /\ directory_pages[d].local_depths_[i] = 1
            /\ directory_pages[d].local_depths_[j] = 2

\* C11: UnpinPage(p, d) returns false and changes nothing when p is not
\* resident or its pin count is 0; otherwise it returns true, decrements
\* the pin count by one and makes the frame evictable exactly when the new
\* pin count is 0.
C11_UnpinPage ==
  [][\A p \in PageIds, d \in BOOLEAN :
       UnpinPage(p, d) =>
         IF p \notin Resident \/ FrameOf(p).pin_count_ <= 0
         THEN /\ ~last'.ret
              /\ UNCHANGED <<pages_, page_table_, free_list_, node_store_,
                             evictable_size_, db_io_>>
         ELSE /\ last'.ret
              /\ page_table_' = page_table_
              /\ pages_'[page_table_[p]].pin_count_ = FrameOf(p).pin_count_ - 1
              /\ Evictable(page_table_[p])'
                   <=> (pages_'[page_table_[p]].pin_count_ = 0)]_vars

\* UnpinPage has just taken a page from two pins to one
C11_Witness ==
  /\ last.op = "UnpinPage" /\ last.ret
  /\ last.page \in Resident
  /\ FrameOf(last.page).pin_count_ = 1
  /\ ~Evictable(page_table_[last.page])

\* C12: DeletePage(p) returns true and changes nothing when p is not
\* resident; returns false and changes nothing when p is pinned; otherwise
\* it writes p to disk if dirty, zeroes the buffer, removes p from the page
\* table and its frame from the replacer, appends the frame to the free
\* list and returns true.
C12_DeletePage ==
  [][\A p \in PageIds :
       DeletePage(p) =>
         IF p \notin Resident
         THEN /\ last'.ret
              /\ UNCHANGED <<pages_, page_table_, free_list_, node_store_,
                             evictable_size_, db_io_>>
         ELSE IF FrameOf(p).pin_count_ > 0
         THEN /\ ~last'.ret
              /\ UNCHANGED <<pages_, page_table_, free_list_, node_store_,
                             evictable_size_, db_io_>>
         ELSE /\ last'.ret /\ ~aborted'
              /\ IF FrameOf(p).is_dirty_
                 THEN Len(db_io_') > p /\ db_io_'[p + 1] = FrameOf(p).data_
                 ELSE db_io_' = db_io_
              /\ pages_'[page_table_[p]].data_ = 0
              /\ page_table_' = Erase(page_table_, p)
              /\ node_store_' = Erase(node_store_, page_table_[p])
              /\ evictable_size_' = evictable_size_ - 1
              /\ free_list_' = Append(free_list_, page_table_[p])]_vars

\* DeletePage has just removed a page and written its buffer to disk
C12_Witness ==
  /\ last.op = "DeletePage" /\ last.ret
  /\ last.page \notin Resident
  /\ free_list_ # <<>>
  /\ Len(db_io_) > last.page
  /\ db_io_[last.page + 1] # 0

\* C13: FlushPage(p) of a resident page writes the frame's buffer to disk at
\* page p, clears the dirty bit, returns true and leaves p resident with pin
\* count and buffer unchanged; flushing again changes neither disk, buffer
\* nor the dirty bit.  FlushPage of a non-resident page returns false and
\* writes nothing.
C13_FlushPage ==
  [][\A p \in PageIds :
       FlushPage(p) =>
         IF p \notin Resident
         THEN /\ ~last'.ret
              /\ UNCHANGED <<pages_, page_table_, free_list_, node_store_,
                             evictable_size_, db_io_>>
         ELSE /\ last'.ret
              /\ Len(db_io_') > p
              /\ db_io_'[p + 1] = FrameOf(p).data_
              /\ \A q \in PageIds \ {p} :
                   q < Len(db_io_) => db_io_'[q + 1] = db_io_[q + 1]
              /\ page_table_' = page_table_
              /\ pages_' = [pages_ EXCEPT ![page_table_[p]].is_dirty_ = FALSE]
              /\ FlushPageOn(pages_', page_table_', db_io_', p)
                   = [ret |-> TRUE, pages |-> pages_', file |-> db_io_']]_vars

\* FlushPage has just written a dirty, pinned page whose block was not on
\* disk before
C13_Witness ==
  /\ last.op = "FlushPage" /\ last.ret
  /\ last.page \in Resident
  /\ FrameOf(last.page).pin_count_ > 0
  /\ FrameOf(last.page).data_ # 0
  /\ ~FrameOf(last.page).is_dirty_
  /\ Len(db_io_) = last.page + 1
  /\ db_io_[last.page + 1] = FrameOf(last.page).data_

\* C14: in every state, a frame is mapped in the page table if and only if
\* its page_id field is not the invalid sentinel and it is not on the free
\* list; in particular a frame on the free list carries no valid page id.
C14_MappedIffValidPageId ==
  \A f \in DOMAIN pages_ :
    /\ f \in Range(page_table_)
         <=> (pages_[f].page_id_ # INVALID_PAGE_ID /\ f \notin Range(free_list_))
    /\ f \in Range(free_list_) => pages_[f].page_id_ = INVALID_PAGE_ID

\* the evictable frames of the replacer, a frame's backward k-distance and
\* its oldest recorded timestamp
EvictableFrames == {f \in DOMAIN node_store_ : node_store_[f].is_evictable_}
KDistanceOf(f) == GetKDistance(node_store_[f], current_timestamp_, k_)
OldestOf(f) == GetEarlyTimestamp(node_store_[f])

\* C15: Evict returns the evictable frame with the largest backward
\* k-distance, a frame with fewer than k accesses having distance +infinity
\* and ties among such frames going to the smallest recorded timestamp,
\* for every access history and evictable set.
C15_EvictLargestKDistance ==
  [][ReplacerEvict =>
       IF EvictableFrames = {} THEN ~last'.ret
       ELSE /\ last'.ret
            /\ last'.page \in EvictableFrames
            /\ \A g \in EvictableFrames :
                 /\ KDistanceOf(g) <= KDistanceOf(last'.page)
                 /\ KDistanceOf(g) = INF /\ KDistanceOf(last'.page) = INF
                      => OldestOf(last'.page) <= OldestOf(g)]_vars

\* C16: after any sequence of RecordAccess, SetEvictable, Remove and Evict,
\* Size() is the number of tracked frames whose evictable flag is true;
\* SetEvictable(f, b) with b the current flag of f changes nothing; a frame
\* first seen by RecordAccess starts non-evictable.
C16_SizeCountsEvictable ==
  /\ [](evictable_size_ = Cardinality(EvictableFrames))
  /\ [][\A f \in 0 .. (NumFrames - 1), b \in BOOLEAN :
          /\ ReplacerSetEvictable(f, b)
               /\ f \in DOMAIN node_store_ /\ node_store_[f].is_evictable_ = b
               => UNCHANGED <<node_store_, evictable_size_, current_timestamp_>>
          /\ ReplacerRecordAccess(f) /\ f \notin DOMAIN node_store_
               => f \in DOMAIN node_store_' /\ ~node_store_'[f].is_evictable_]_vars

\* two of three tracked frames are evictable, the second made so just now
C16_Witness ==
  /\ last.op = "SetEvictable" /\ last.dirty /\ last.ret
  /\ Cardinality(DOMAIN node_store_) = NumFrames
  /\ Cardinality(EvictableFrames) = 2
  /\ evictable_size_ = 2

\* C17: Remove(f) changes nothing when f is not tracked; aborts without
\* erasing the node or changing Size() when f is tracked but non-evictable;
\* and when f is evictable erases f's whole history and decrements Size()
\* by one, so that a later RecordAccess(f) starts a fresh history.
C17_Remove ==
  [][\A f \in 0 .. (NumFrames - 1) :
       ReplacerRemove(f) =>
         IF f \notin DOMAIN node_store_
         THEN UNCHANGED <<node_store_, evictable_size_, current_timestamp_, aborted>>
         ELSE IF ~node_store_[f].is_evictable_
         THEN aborted' /\ UNCHANGED <<node_store_, evictable_size_>>
         ELSE /\ ~aborted'
              /\ f \notin DOMAIN node_store_'
              /\ \A g \in DOMAIN node_store_ \ {f} :
                   g \in DOMAIN node_store_' /\ node_store_'[g] = node_store_[g]
              /\ evictable_size_' = evictable_size_ - 1
              /\ RecordAccess(node_store_', f, current_timestamp_' + 1)[f]
                   = [history_ |-> <<current_timestamp_' + 1>>,
                      is_evictable_ |-> FALSE]]_vars

\* Remove of a tracked non-evictable frame has just aborted the program
C17_Witness ==
  /\ last.op = "Remove"
  /\ aborted
  /\ last.page \in DOMAIN node_store_
  /\ ~node_store_[last.page].is_evictable_
  /\ Len(node_store_[last.page].history_) = 2

\* the writes to the page of request r that were scheduled before r
WritesBefore(r) ==
  {w \in 1 .. (r - 1) :
     requests[w].is_write_ /\ requests[w].page_id_ = requests[r].page_id_}

\* C18: the worker serves the requests in the order they were put on the
\* queue, each one once and one at a time; hence a read scheduled after a
\* write to the same page observes that write's data.
C18_SchedulerFifo ==
  /\ \A i \in DOMAIN io_log : io_log[i] = i
  /\ \A r \in Range(io_log) :
       ~requests[r].is_write_ /\ WritesBefore(r) # {}
         => \E w \in WritesBefore(r) :
              /\ \A v \in WritesBefore(r) : v <= w
              /\ data_[r] = data_[w]

\* two writes of different data to one page and then a read of it, which
\* has returned the second write's data
C18_Witness ==
  /\ Len(io_log) = 3
  /\ requests[1].is_write_ /\ requests[2].is_write_ /\ ~requests[3].is_write_
  /\ requests[1].page_id_ = requests[3].page_id_
  /\ requests[2].page_id_ = requests[3].page_id_
  /\ data_[1] # data_[2]
  /\ data_[3] = data_[2]

\* C19: every request passed to Schedule eventually has its completion
\* signal fulfilled, exactly once, with value true, and only after the disk
\* manager's read or write for it has returned.
C19_EverySignalOnce ==
  /\ [](\A r \in DOMAIN callback_ :
          /\ callback_[r].sets <= 1
          /\ callback_[r].sets = 1 => callback_[r].value /\ r \in Range(io_log))
  /\ \A r \in 1 .. MaxRequests :
       (r \in DOMAIN requests) ~> (r \in DOMAIN callback_ /\ callback_[r].sets = 1)

\* the worker is idle again with every request served and signalled
C19_Witness ==
  /\ Len(requests) = MaxRequests
  /\ \A r \in DOMAIN callback_ : callback_[r].sets = 1 /\ callback_[r].value
  /\ Len(io_log) = MaxRequests
  /\ background_thread_.pc = "Get"
  /\ destructor = "none"

\* C20: the destructor puts the sentinel behind every request scheduled
\* before it; the worker serves and signals each of those requests, then
\* returns on the sentinel, and the destructor's join returns.
C20_DestructorDrainsAndJoins ==
  /\ [][Destroy => request_queue_' = Append(request_queue_, nullopt)]_vars
  /\ [](background_thread_.pc = "returned"
          => /\ destructor # "none"
             /\ request_queue_ = <<>>
             /\ \A r \in DOMAIN requests :
                  r \in Range(io_log) /\ callback_[r].sets = 1)
  /\ (destructor = "join") ~> (destructor = "joined")

\* the scheduler was destroyed with requests still queued and join has
\* returned
C20_Witness ==
  /\ destructor = "joined"
  /\ background_thread_.pc = "returned"
  /\ Len(requests) = MaxRequests
  /\ \A r \in DOMAIN requests : callback_[r].sets = 1

\* C21: ReadPage of a page at or beyond the end of the file fills the whole
\* output buffer with zeros; the buffer never keeps what it held before.
C21_ReadPastEndIsZero ==
  [][WorkerDisk =>
       LET r == background_thread_.disk_request
       IN ~requests[r].is_write_ /\ requests[r].page_id_ >= Len(db_io_)
            => data_'[r] = 0]_vars

\* the bucket key routes to is full, its local depth is the global depth and
\* the global depth is the directory's max depth
FullAtMaxDepth(key) ==
  LET hash_key == Hash(key)
      directory_page_id ==
        header_page.directory_page_ids_[HashToDirectoryIndex(header_page, hash_key)]
  IN  /\ directory_page_id # INVALID_PAGE_ID
      /\ LET directory_page == directory_pages[directory_page_id]
             bucket_index == HashToBucketIndex(directory_page, hash_key)
         IN  /\ IsFull(bucket_pages[directory_page.bucket_page_ids_[bucket_index]])
             /\ directory_page.local_depths_[bucket_index] = directory_page.global_depth_
             /\ directory_page.global_depth_ = directory_page.max_depth_

\* the keys an Insert has stored and no Remove has taken out are found by
\* GetValue with the value they were inserted with
InsertedKeysFound ==
  \A key \in Keys :
    expect[key].st = "present"
      => GetValueOutcome(key) = [ret |-> TRUE, result |-> <<expect[key].val>>]

\* the header, the directories and the buckets there were are as they were
TableUnchanged ==
  /\ header_page' = header_page
  /\ directory_pages' = directory_pages
  /\ \A b \in DOMAIN bucket_pages : bucket_pages'[b] = bucket_pages[b]

\* C22: Insert returns false when the target bucket is full, its local depth
\* equals the global depth and the global depth equals the directory max
\* depth; the directory and all buckets are then unchanged and every key
\* inserted before is still found by GetValue.
C22_InsertFailsAtMaxDepth ==
  [][\A key \in Keys, value \in 1 .. MaxVal :
       Insert(key, value) /\ FullAtMaxDepth(key)
         => ~called'.ret /\ TableUnchanged /\ InsertedKeysFound']_vars

\* what the failing Insert does by itself: it returns false and leaves the
\* header, the directories and the buckets as they were
C22_FailingInsertAlone ==
  [][\A key \in Keys, value \in 1 .. MaxVal :
       Insert(key, value) /\ FullAtMaxDepth(key)
         => ~called'.ret /\ TableUnchanged]_vars

\* key is stored in the bucket the table routes it to
InRoutedBucket(key) ==
  /\ BucketPageIdOf(key) # INVALID_PAGE_ID
  /\ Found(bucket_pages[BucketPageIdOf(key)], key) # {}

\* C23: Insert(k, v) returns false and leaves the table unchanged when k is
\* already present in the bucket k routes to.
C23_DuplicateInsertFails ==
  [][\A key \in Keys, value \in 1 .. MaxVal :
       Insert(key, value) /\ InRoutedBucket(key)
         => ~called'.ret /\ TableUnchanged]_vars

\* no guard object holds pin a any more
Given(a) == \A g \in GuardSlots : guards[g].pin # a

\* C24: every pin a guard was created with is given back by exactly one
\* UnpinPage and, when it was latched, exactly one unlatch, however the guard
\* was moved, dropped and destroyed; a guard that holds no page makes no
\* unpin and no unlatch call.
C24_OneUnpinOneUnlatch ==
  /\ inert_calls = 0
  /\ \A a \in DOMAIN pins :
       /\ pins[a].unpins <= 1
       /\ pins[a].unlatches <= 1
       /\ Given(a) => /\ pins[a].unpins = 1
                      /\ pins[a].unlatches = IF pins[a].latch = "none" THEN 0 ELSE 1

\* C25: the guard that gives a pin back passes is_dirty = true to UnpinPage
\* exactly when GetDataMut or AsMut was used on a guard holding that pin,
\* before or after the guard was moved or upgraded.
C25_DirtyIffMutated ==
  \A a \in DOMAIN pins :
    pins[a].unpins >= 1 => (pins[a].dirty <=> pins[a].mutated)

\* C26: NewPage, FetchPage, UnpinPage, FlushPage, FlushAllPages and
\* DeletePage exclude one another: at no time are two threads in the bodies
\* of such operations.
C26_BpmOperationsExclusive ==
  \A t, u \in Threads : InBody(t) /\ InBody(u) => t = u

LevelRank(level) ==
  CASE level = "header" -> 1 [] level = "directory" -> 2 [] level = "bucket" -> 3

\* each latch of the sequence is on a deeper level than the ones before it
HeaderDirectoryBucket(latches) ==
  \A i, j \in DOMAIN latches :
    i < j => LevelRank(latches[i].level) < LevelRank(latches[j].level)

\* C27: Insert, GetValue and Remove take their page latches in the order
\* header, directory, bucket, and hold at most one latch per level.
C27_LatchOrder ==
  [][/\ \A key \in Keys, value \in 1 .. MaxVal :
          Insert(key, value) => HeaderDirectoryBucket(InsertLatches(key))
     /\ \A key \in Keys : GetValue(key) => HeaderDirectoryBucket(GetValueLatches(key))
     /\ \A key \in Keys : Remove(key) => HeaderDirectoryBucket(RemoveLatches(key))]_vars

\* the directory page and the slot a key is routed to
DirectoryOf(key) ==
  directory_pages[header_page.directory_page_ids_[HashToDirectoryIndex(header_page, Hash(key))]]
BucketIndexOf(key) == HashToBucketIndex(DirectoryOf(key), Hash(key))

\* Insert(key, ...) splits the bucket the key is routed to: the bucket is
\* full and the directory can still hold its split image
Splits(key) ==
  /\ BucketPageIdOf(key) # INVALID_PAGE_ID
  /\ IsFull(bucket_pages[BucketPageIdOf(key)])
  /\ ~FullAtMaxDepth(key)

Entries(bucket) == {bucket.array_[i] : i \in 1 .. bucket.size_}

\* C28: a split moves to the new bucket exactly the entries of the full
\* bucket whose hash under the new local depth's mask is the new bucket's
\* index, and leaves exactly the others in the old bucket.
C28_SplitPartitions ==
  [][\A key \in Keys, value \in 1 .. MaxVal :
       Insert(key, value) /\ Splits(key)
         /\ DirectoryOf(key).local_depths_[BucketIndexOf(key)] = DirectoryOf(key).global_depth_
         => LET directory == DirectoryOf(key)
                bucket_index == BucketIndexOf(key)
                new_bucket_index == GetSplitImageIndex(directory, bucket_index)
                new_mask == (2 ^ (directory.local_depths_[bucket_index] + 1)) - 1
                old_bucket == bucket_pages'[BucketPageIdOf(key)]
                new_bucket == bucket_pages'[table_pages_]
            IN \A e \in Entries(bucket_pages[BucketPageIdOf(key)]) :
                 IF BitAnd(Hash(e.key).lo, new_mask) = new_bucket_index
                 THEN e \in Entries(new_bucket) /\ e \notin Entries(old_bucket)
                 ELSE e \in Entries(old_bucket) /\ e \notin Entries(new_bucket)]_vars

\* the key is routed to a full bucket whose local depth is below the
\* directory's global depth
FullBelowGlobalDepth(key) ==
  /\ BucketPageIdOf(key) # INVALID_PAGE_ID
  /\ IsFull(bucket_pages[BucketPageIdOf(key)])
  /\ DirectoryOf(key).local_depths_[BucketIndexOf(key)] < DirectoryOf(key).global_depth_

\* C29: Insert into a full bucket whose local depth is below the global
\* depth leaves the global depth alone, raises the bucket's local depth by
\* one, and puts the new bucket page into the directory at the split image
\* slot with the new local depth.
C29_SplitBelowGlobalDepth ==
  [][\A key \in Keys, value \in 1 .. MaxVal :
       Insert(key, value) /\ FullBelowGlobalDepth(key)
         => LET before == DirectoryOf(key)
                bucket_index == BucketIndexOf(key)
                image == GetSplitImageIndex(before, bucket_index)
                after == directory_pages'[header_page.directory_page_ids_[
                                            HashToDirectoryIndex(header_page, Hash(key))]]
            IN /\ after.global_depth_ = before.global_depth_
               /\ after.local_depths_[bucket_index] = before.local_depths_[bucket_index] + 1
               /\ after.bucket_page_ids_[image] = table_pages_
               /\ after.local_depths_[image] = before.local_depths_[bucket_index] + 1]_vars

\* the pair is stored in the bucket the directory routes the key to
Routed(key, value) ==
  /\ BucketPageIdOf(key) # INVALID_PAGE_ID
  /\ [key |-> key, value |-> value] \in Entries(bucket_pages[BucketPageIdOf(key)])

\* C30: when Insert returns true, the pair is in the bucket the directory
\* routes the key to.
C30_TrueMeansStored ==
  [][\A key \in Keys, value \in 1 .. MaxVal :
       Insert(key, value) /\ called'.ret => Routed(key, value)']_vars

\* C31: FetchPage of a resident page adds one to its pin count, makes its
\* frame non-evictable, records one access, does no disk I/O and leaves the
\* dirty bit, the buffer, the page table and the free list as they were.
C31_FetchResident ==
  [][\A p \in PageIds :
       FetchPage(p) /\ p \in Resident
         => /\ pages_'[page_table_[p]].pin_count_ = FrameOf(p).pin_count_ + 1
            /\ ~Evictable(page_table_[p])'
            /\ current_timestamp_' = current_timestamp_ + 1
            /\ db_io_' = db_io_
            /\ pages_'[page_table_[p]].is_dirty_ = FrameOf(p).is_dirty_
            /\ pages_'[page_table_[p]].data_ = FrameOf(p).data_
            /\ page_table_' = page_table_
            /\ free_list_' = free_list_]_vars

\* C32: IncrGlobalDepth on a directory of global depth g leaves global depth
\* g + 1, gives every index i in [2^g, 2^(g+1)) the bucket page id and the
\* local depth of index i - 2^g, and leaves the indices below 2^g alone;
\* Size() is 2^g before and 2^(g+1) after.
C32_IncrGlobalDepth ==
  [][DirectoryIncrGlobalDepth
       => LET before == directory_pages[1]
              after == directory_pages'[1]
              g == before.global_depth_
          IN /\ after.global_depth_ = g + 1
             /\ \A i \in (2 ^ g) .. ((2 ^ (g + 1)) - 1) :
                  /\ after.bucket_page_ids_[i] = before.bucket_page_ids_[i - (2 ^ g)]
                  /\ after.local_depths_[i] = before.local_depths_[i - (2 ^ g)]
             /\ \A i \in 0 .. ((2 ^ g) - 1) :
                  /\ after.bucket_page_ids_[i] = before.bucket_page_ids_[i]
                  /\ after.local_depths_[i] = before.local_depths_[i]
             /\ DirectorySize(before) = 2 ^ g
             /\ DirectorySize(after) = 2 ^ (g + 1)]_vars

\* IncrGlobalDepth has just doubled a directory of two different buckets of
\* local depth 1 to four indices
C32_Witness ==
  /\ called.op = "IncrGlobalDepth"
  /\ 1 \in DOMAIN directory_pages
  /\ directory_pages[1].global_depth_ = 2
  /\ directory_pages[1].bucket_page_ids_[0] # directory_pages[1].bucket_page_ids_[1]
  /\ directory_pages[1].bucket_page_ids_[2] = directory_pages[1].bucket_page_ids_[0]
  /\ directory_pages[1].bucket_page_ids_[3] = directory_pages[1].bucket_page_ids_[1]
  /\ \A i \in 0 .. 3 : directory_pages[1].local_depths_[i] = 1

\* C33: for every live index i, GetLocalDepthMask(i) is
\* (1 << local_depths[i]) - 1, and GetGlobalDepthMask() is (1 << g) - 1.
C33_DepthMasks ==
  \A d \in DOMAIN directory_pages :
    /\ GetGlobalDepthMask(directory_pages[d]) = (2 ^ directory_pages[d].global_depth_) - 1
    /\ \A i \in 0 .. (DirectorySize(directory_pages[d]) - 1) :
         GetLocalDepthMask(directory_pages[d], i)
           = (2 ^ directory_pages[d].local_depths_[i]) - 1

\* C34: the header page's MaxSize() is 2^H for the max depth H given to
\* Init, and HashToDirectoryIndex of every hash is below it.
C34_HeaderMaxSize ==
  /\ HeaderMaxSize(header_page) = 2 ^ header_max_depth_
  /\ \A key \in Keys : HashToDirectoryIndex(header_page, Hash(key)) < HeaderMaxSize(header_page)

\* the size of a bucket is within its maximum and its keys differ pairwise
BucketWellFormed(bucket) ==
  /\ 0 <= bucket.size_ /\ bucket.size_ <= bucket.max_size_
  /\ \A i, j \in 1 .. bucket.size_ :
       i # j => bucket.array_[i].key # bucket.array_[j].key

\* C35: after any Insert and Remove calls on a bucket page its size is within
\* 0 .. max_size and its keys are pairwise distinct; Insert returns false and
\* changes nothing when the bucket is full or holds the key, and otherwise
\* appends the pair at position size and adds one to size.
C35_BucketPage ==
  /\ [](\A b \in DOMAIN bucket_pages : BucketWellFormed(bucket_pages[b]))
  /\ [][\A key \in Keys, value \in 1 .. MaxVal :
          BucketPageInsert(key, value)
            => LET before == bucket_pages[1]
                   after == bucket_pages'[1]
               IN IF IsFull(before) \/ Found(before, key) # {}
                  THEN ~called'.ret /\ after = before
                  ELSE /\ called'.ret
                       /\ after.size_ = before.size_ + 1
                       /\ after.array_[before.size_ + 1] = [key |-> key, value |-> value]
                       /\ \A i \in 1 .. before.size_ : after.array_[i] = before.array_[i]]_vars

\* Insert has just refused a key that a bucket with room already holds
C35_Witness ==
  /\ called.op = "Insert" /\ ~called.ret
  /\ 1 \in DOMAIN bucket_pages
  /\ bucket_pages[1].max_size_ = MaxBucketSize
  /\ bucket_pages[1].size_ = 1
  /\ Found(bucket_pages[1], called.key) # {}

\* C36: Evict returns true with a victim whenever some tracked frame is
\* evictable, for every k and access history, erasing the victim's node and
\* taking one off Size(); it returns false and changes nothing only when no
\* frame is evictable.
C36_EvictSucceedsWhenEvictable ==
  [][ReplacerEvict =>
       IF EvictableFrames # {}
       THEN /\ last'.ret
            /\ last'.page \in EvictableFrames
            /\ node_store_' = Erase(node_store_, last'.page)
            /\ evictable_size_' = evictable_size_ - 1
       ELSE /\ ~last'.ret
            /\ UNCHANGED <<node_store_, evictable_size_>>]_vars

\* C37: a move assignment onto a guard that owns a page unpins that page
\* once and, for a read or write guard, releases its latch once; the target
\* then owns the source's page with its dirty flag, and the source is
\* inert.  A move assignment onto an inert guard unpins nothing.
C37_MoveAssign ==
  [][\A g, h \in GuardSlots :
       MoveAssignGuard(g, h) /\ (guards[h].page_ # nullptr \/ ~guards[h].bpm_)
         => /\ ~segv'
            /\ guards'[h].page_ = guards[g].page_
            /\ guards'[h].is_dirty_ = guards[g].is_dirty_
            /\ guards'[h].pin = guards[g].pin
            /\ guards'[g].page_ = nullptr /\ ~guards'[g].bpm_
            /\ IF guards[h].page_ # nullptr
               THEN LET old == guards[h].pin
                    IN /\ pins'[old].unpins = pins[old].unpins + 1
                       /\ pins'[old].unlatches
                            = pins[old].unlatches + IF pins[old].latch = "none" THEN 0 ELSE 1
               ELSE pages_' = pages_ /\ pins' = pins]_vars

\* nothing is unpinned, nothing is unlatched and the program goes on
NoRelease ==
  /\ ~segv'
  /\ pages_' = pages_
  /\ rwlatch_' = rwlatch_
  /\ pins' = pins
  /\ inert_calls' = inert_calls

\* C38: Drop() on a basic, read or write guard that was already dropped
\* does nothing: no UnpinPage, no unlatch, no fault; nor does the destructor
\* of a guard that was dropped.
C38_DropTwice ==
  [][\A g \in GuardSlots :
       guards[g].dropped /\ (DropGuard(g) \/ DestroyGuard(g)) => NoRelease]_vars

\* some call has not returned and no thread can take a step
Stuck ==
  /\ \E t \in Threads : thread[t].pc # "idle"
  /\ \A t \in Threads : ~ENABLED TableStep(t)

ReadsPage(t) ==
  \/ TableFetch(t) /\ LatchMode(thread[t].op, LevelOf(thread[t])) = "none"
  \/ TableLatch(t)

\* C40: a call reads a header, directory or bucket page only while it holds
\* a latch on it, and so never while another thread holds the page's write
\* latch.
C40_ReadsUnderLatch ==
  [][\A t \in Threads :
       ReadsPage(t) =>
         /\ \E h \in thread'[t].held : h.page = PageOf(thread[t])
         /\ \A u \in Threads \ {t} :
              [page |-> PageOf(thread[t]), mode |-> "write"] \notin thread[u].held]_vars

NeverAborted == ~aborted

====
